---- MODULE Spec2Model ----
(***************************************************************************)
(* A model of the client-side data layer of 4layers.earth:                 *)
(*   - CacheManager     (src/src/public/services/CacheManager.js)          *)
(*   - GroundDataManager (src/unnamed/part_008)                            *)
(*   - ValueInterpolator (src/unnamed/part_007)                            *)
(*   - Timeline          (src/unnamed/part_009)                            *)
(* Time (Date.now()) is an integer clock `now`; one tick is one second.    *)
(***************************************************************************)
EXTENDS Integers, Sequences, FiniteSets, TLC

VARIABLES
  now,              \* Date.now(), in ticks
  tz,               \* the environment's local-time offset, in ms (Date#setMinutes is local)
  cache,            \* CacheManager.cache: key -> [data, timestamp, expires, ttl]
  accessTimes,      \* CacheManager.accessTimes: a Map, in insertion order: <<[key, time], ...>>
  written,          \* history: the last set call of ProbeKey [key, data, at, ttl] if it still stands
                    \* (no later invalidate or eviction of the key, no clear), or NoWrite
  pendingRequests,  \* GroundDataManager.pendingRequests: key -> index into requests
  requests,         \* every retrieval (fetchDataWithRetry promise) started so far
  calls,            \* every getDataForTime call made so far and the state of its promise
  lastCall,         \* history: the arguments of the getDataForTime call made in the last step, or NoCall
  requestCount,     \* GroundDataManager.requestCount
  errorCount,       \* GroundDataManager.errorCount
  cacheHitCount,    \* GroundDataManager.cacheHitCount
  preloads,         \* every preloadAdjacentData call made so far: <<[promises, chunk, phase], ...>>
  interp,           \* a ValueInterpolator.interpolate call: its arguments and what it returned
  clock,            \* the browser's time (performance.now(), timers), in ticks of TickMs
  currentTimestamp, \* Timeline.currentTimestamp: the anchor, in ms
  hourWidth,        \* Timeline.hourWidth, in position units (PosScale units to the pixel)
  scrollPosition,   \* Timeline.scrollPosition, in position units
  isDragging,       \* Timeline.isDragging
  debounceTimeout,  \* Timeline.debounceTimeout: the tick at which the pending timer fires, or NoTimer
  timers,           \* the browser's pending timers that run emitTimeChange's callback: the ticks
                    \* at which they fire (a timer is known by its tick: debounceTimeout names one)
  wheelTimeout,     \* Timeline.wheelTimeout: the tick at which the pending timer fires, or NoTimer
  animations,       \* the running animateToPosition loops: <<[startPosition, distance, startTime, lastFrame], ...>>
  inputs,           \* history: the input events handled so far: <<[kind, deltaX], ...>>
  notifications,    \* history: the onTimeChange calls made so far: <<[timestamp, source, immediate, after], ...>>
                    \* (after: the number of input events handled before the call)
  burst,            \* history: the move events of the drag in progress [moves, rapid, lastAt, base], or NoBurst
  bus,              \* EventBus.listeners (of one event), GroundLayerState.subscribers, and (history)
                    \* the last dispatch: [listeners, subscribers, dispatched]
  ows,              \* OpenWeatherService: [time, requestCount, lastResetTime, cache, pending, issued, last]
  probe,            \* a call of a method that keeps no state: [fn, ...its arguments, result], or NoProbe
  gls               \* GroundLayerState: [currentTimestamp, timelineData, lastUpdateTime, updateCount,
                    \* current, query]

cacheVars == <<cache, accessTimes>>
dmVars == <<pendingRequests, requests, calls, lastCall, requestCount, errorCount, cacheHitCount,
           preloads>>
timelineVars == <<clock, currentTimestamp, hourWidth, scrollPosition, isDragging, debounceTimeout,
                  timers, wheelTimeout, animations, inputs, notifications, burst>>
\* the variables of the other services of the application
appVars == <<bus, ows, probe, gls>>
uiVars == <<interp, timelineVars, appVars>>
vars == <<now, tz, cache, accessTimes, written, pendingRequests, requests, calls, lastCall,
          requestCount, errorCount, cacheHitCount, preloads, interp, timelineVars, appVars>>

----------------------------------------------------------------------------
(* Bounds of the model *)

\* the clock runs from 0 to MaxTime and then stops
MaxTime == 3
\* CacheManager's constructor parameter maxAge (300000 ms in GroundDataManager), in ticks
MaxAge == 2
\* CacheManager's constructor parameter maxSize (200 in GroundDataManager)
MaxSize == 2
\* the number of getDataForTime calls made
MaxCalls == 3
\* the largest hoursRadius preloadAdjacentData is called with, and the number of
\* preloadAdjacentData calls made
MaxRadius == 2
MaxPreloads == 1

\* JavaScript's null / undefined
Null == "null"
\* the value of oldestKey when evictOldest finds no key
NoKey == <<>>

MsPerHour == 60 * 60 * 1000
MsPerMinute == 60 * 1000

\* the samples a fetch can return
Samples == <<"d1", "d2", "d3", "d4">>
\* the environment's time-zone offsets that are modelled: UTC and UTC+05:30
TZOffsets == {0, 30 * MsPerMinute}
\* [lat, lon] in thousandths of a degree: the default location 40.7128, -74.0060 (rounded
\* to 3 decimals) and a second one
DefaultLocation == [lat |-> 40713, lon |-> -74006]
OtherLocation == [lat |-> 51507, lon |-> -128]

----------------------------------------------------------------------------
(* GroundDataManager.generateCacheKey, GroundLayerState.getTimelineKey *)

\* Math.round(x * 100) / 100 for x given in thousandths: the result in hundredths.
\* Math.round rounds half up (towards +infinity).
RoundTo2Decimals(milli) == (milli + 5) \div 10

\* (a bug: the hour nearest to the timestamp, as the source's comment words it)
SetMinutesZero_Nearest(timestamp, offset) ==
  LET local == timestamp + offset + (MsPerHour \div 2)
  IN  (local - (local % MsPerHour)) - offset

\* date.setMinutes(0, 0, 0): zero the minutes, seconds and milliseconds of the LOCAL time
\* of the timestamp (ms since the epoch), giving ms since the epoch again.
SetMinutesZero(timestamp, offset) ==
  LET local == timestamp + offset
  IN  (local - (local % MsPerHour)) - offset

\* `ground_${date.toISOString()}_${roundedLat}_${roundedLon}`: the key is modelled by its
\* three variable parts, after the constant prefix "ground_"; the ISO string of a time is
\* modelled by the time itself (toISOString is injective on valid dates).
generateCacheKey(timestamp, lat, lon) ==
  <<SetMinutesZero(timestamp, tz), RoundTo2Decimals(lat), RoundTo2Decimals(lon)>>

getTimelineKey(timestamp) == SetMinutesZero(timestamp, tz)

----------------------------------------------------------------------------
(* CacheManager: each method as an operator from the maps (c: cache, a: accessTimes)   *)
(* and the clock t to the new maps and the returned value.                              *)

\* Map.prototype.set on accessTimes: an existing key keeps its place, a new one goes last
MapSet(a, key, time) ==
  IF \E i \in 1..Len(a) : a[i].key = key
    THEN [i \in 1..Len(a) |-> IF a[i].key = key THEN [key |-> key, time |-> time] ELSE a[i]]
    ELSE Append(a, [key |-> key, time |-> time])

\* (a bug: the key stays in accessTimes)
MapDelete_Kept(a, key) == a

\* Map.prototype.delete on accessTimes
MapDelete(a, key) == SelectSeq(a, LAMBDA e : e.key # key)

\* Map.prototype.delete on cache
Remove(c, keys) == [k \in (DOMAIN c) \ keys |-> c[k]]

MapKeys(a) == {a[i].key : i \in 1..Len(a)}

\* the loop of evictOldest: oldestKey after scanning a[i..], from (oldestKey, oldestTime)
RECURSIVE OldestFrom(_, _, _, _)
OldestFrom(a, i, oldestKey, oldestTime) ==
  IF i > Len(a) THEN oldestKey
  ELSE IF a[i].time < oldestTime
    THEN OldestFrom(a, i + 1, a[i].key, a[i].time)
    ELSE OldestFrom(a, i + 1, oldestKey, oldestTime)

\* let oldestKey = null; let oldestTime = Date.now(); for (...) if (time < oldestTime) ...
OldestKey(a, t) == OldestFrom(a, 1, NoKey, t)

evictOldest(c, a, t) ==
  LET oldestKey == OldestKey(a, t)
  IN  IF oldestKey # NoKey
        THEN [cache |-> Remove(c, {oldestKey}), accessTimes |-> MapDelete(a, oldestKey)]
        ELSE [cache |-> c, accessTimes |-> a]

\* customTTL || this.maxAge: null and 0 are both falsy, and both are modelled by 0
EffectiveTTL(customTTL) == IF customTTL = 0 THEN MaxAge ELSE customTTL

\* if (this.cache.size >= this.maxSize && !this.cache.has(key))
CacheFull(c, key) == Cardinality(DOMAIN c) >= MaxSize /\ key \notin DOMAIN c

\* (a bug that treats an entry as expired already at the instant it expires)
Expired_AtExpiry(item, t) == t >= item.expires

\* now > item.expires
Expired(item, t) == t > item.expires

CM_set(c, a, t, key, data, customTTL) ==
  LET ttl == EffectiveTTL(customTTL)
      e   == IF CacheFull(c, key) THEN evictOldest(c, a, t) ELSE [cache |-> c, accessTimes |-> a]
      item == [data |-> data, timestamp |-> t, expires |-> t + ttl, ttl |-> ttl]
  IN  [cache |-> [k \in (DOMAIN e.cache) \cup {key} |-> IF k = key THEN item ELSE e.cache[k]],
       accessTimes |-> MapSet(e.accessTimes, key, t),
       ret |-> Null]

CM_get(c, a, t, key) ==
  IF key \notin DOMAIN c
    THEN [cache |-> c, accessTimes |-> a, ret |-> Null]
  ELSE IF Expired(c[key], t)
    THEN [cache |-> Remove(c, {key}), accessTimes |-> MapDelete(a, key), ret |-> Null]
    ELSE [cache |-> c, accessTimes |-> MapSet(a, key, t), ret |-> c[key].data]

CM_has(c, a, t, key) ==
  IF key \notin DOMAIN c
    THEN [cache |-> c, accessTimes |-> a, ret |-> FALSE]
  ELSE IF Expired(c[key], t)
    THEN [cache |-> Remove(c, {key}), accessTimes |-> MapDelete(a, key), ret |-> FALSE]
    ELSE [cache |-> c, accessTimes |-> a, ret |-> TRUE]

\* key.includes(pattern) for a string pattern: the pattern occurs in the key as a
\* contiguous run of its parts
Includes(key, pattern) ==
  \E i \in 0..(Len(key) - Len(pattern)) :
    \A j \in 1..Len(pattern) : key[i + j] = pattern[j]

MapDeleteAll(a, keys) == SelectSeq(a, LAMBDA e : e.key \notin keys)

CM_invalidate(c, a, pattern) ==
  LET keysToDelete == {k \in DOMAIN c : Includes(k, pattern)}
  IN  [cache |-> Remove(c, keysToDelete), accessTimes |-> MapDeleteAll(a, keysToDelete),
       ret |-> Null]

CM_cleanup(c, a, t) ==
  LET keysToDelete == {k \in DOMAIN c : Expired(c[k], t)}
  IN  [cache |-> Remove(c, keysToDelete), accessTimes |-> MapDeleteAll(a, keysToDelete),
       ret |-> Null]

CM_clear == [cache |-> <<>>, accessTimes |-> <<>>, ret |-> Null]

----------------------------------------------------------------------------
(* The state after construction *)

NoWrite == [key |-> NoKey, data |-> Null, at |-> 0, ttl |-> 0]
NoCall == [timestamp |-> -1, lat |-> 0, lon |-> 0, forceRefresh |-> FALSE]
\* a metrics value v stands for the number v / Unit, a progress p for p / ProgressDen
ProgressDen == 2 * 2
Unit == 2 * ProgressDen
\* a sample, as far as the interpolator reads it
Sample(timestamp, current, feelsLike, humidity, pressure) ==
  [timestamp |-> timestamp,
   metrics |-> [temperature |-> [current |-> current, feelsLike |-> feelsLike],
                humidity |-> humidity,
                pressure |-> [current |-> pressure]]]
\* no interpolate call made
NoInterp ==
  [startData |-> Sample(0, 0, 0, 0, 0), endData |-> Sample(0, 0, 0, 0, 0),
   progress |-> 0, result |-> <<>>]

\* no dispatch made
NoDispatch == [by |-> "none", atStart |-> {}, received |-> <<>>]
\* the event bus and the state's subscribers after construction
NoBus == [listeners |-> <<>>, subscribers |-> <<>>, dispatched |-> NoDispatch]

\* OpenWeatherService: no cache entry, no call made
NoEntry == -1
NoWeatherCall == [call |-> "none", countBefore |-> 0, outcome |-> "none", requests |-> 0]
\* OpenWeatherService after construction, at time 0:
\*   time:    Date.now(), in ms
\*   cache:   the timestamp of the entry of each endpoint (for one location), or NoEntry
\*   pending: the upstream requests of each endpoint that are awaited
\*   issued:  history: the upstream requests issued since lastResetTime
\*   last:    history: the last call, requestCount when canMakeRequest had run in it, how
\*            it went on and the upstream requests it issued
NoOws ==
  [time |-> 0, requestCount |-> 0, lastResetTime |-> 0,
   cache |-> [current |-> NoEntry, forecast |-> NoEntry],
   pending |-> [current |-> 0, forecast |-> 0],
   issued |-> 0, last |-> NoWeatherCall]

\* no call made
NoProbe == [fn |-> "none"]

\* GroundLayerState after construction, at time 0:
\*   currentTimestamp: this.currentTimestamp, in ms
\*   timelineData:     this.timelineData, a Map, in insertion order: <<[key, data], ...>>
\*   lastUpdateTime:   this.lastUpdateTime
\*   updateCount:      this.updateCount
\*   current:          (history) what the last getCurrentData call returned: <<>> before
\*                     the first call, then <<result>>, the result being <<>> for null
\*                     and <<object>> otherwise
\*   query:            (history) the last getSurroundingDataPoints call made from outside
\*                     on the present data: <<[timestamp, result]>>, or <<>>
NoGls ==
  [currentTimestamp |-> 0, timelineData |-> <<>>, lastUpdateTime |-> 0, updateCount |-> 0,
   current |-> <<>>, query |-> <<>>]

\* the services after construction
InitServices ==
  /\ gls = NoGls
  /\ bus = NoBus
  /\ ows = NoOws
  /\ probe = NoProbe
  /\ now = 0
  /\ tz \in TZOffsets
  /\ cache = <<>>
  /\ accessTimes = <<>>
  /\ written = NoWrite
  /\ pendingRequests = <<>>
  /\ requests = <<>>
  /\ calls = <<>>
  /\ lastCall = NoCall
  /\ requestCount = 0
  /\ errorCount = 0
  /\ cacheHitCount = 0
  /\ preloads = <<>>

\* Timeline: position units to the pixel (a frame's eased progress is a multiple of
\* 1 / 6^3, so whole-pixel distances are animated exactly)
PosScale == 6 * 6 * 6
\* Timeline options: centerHour
centerHour == 24
\* Timeline options: debounceDelay, in ms
debounceDelay == 200
\* the hour widths calculateDimensions chooses from (60px and 80px)
HourWidths == {60 * PosScale, 80 * PosScale}
\* the time the timeline is constructed at
Anchor == 100 * MsPerHour + 17 * MsPerMinute
NoTimer == -1
\* moves: the move events of the drag so far; rapid: each came within one tick of the
\* event before it; lastAt: the tick of the last event; base: the notifications made
\* before the drag
NoBurst == [moves |-> 0, rapid |-> TRUE, lastAt |-> 0, base |-> 0]

\* the timeline after construction: init() has centered it without notifying
InitTimelineVars ==
  /\ clock = 0
  /\ currentTimestamp = Anchor
  /\ hourWidth \in HourWidths
  /\ scrollPosition = centerHour * hourWidth
  /\ isDragging = FALSE
  /\ debounceTimeout = NoTimer
  /\ timers = <<>>
  /\ wheelTimeout = NoTimer
  /\ animations = <<>>
  /\ inputs = <<>>
  /\ notifications = <<>>
  /\ burst = NoBurst

Init == InitServices /\ interp = NoInterp /\ InitTimelineVars /\ hourWidth = 80 * PosScale

\* Date.now() advances
Tick ==
  /\ now < MaxTime
  /\ now' = now + 1
  /\ lastCall' = NoCall
  /\ UNCHANGED <<uiVars, tz, cache, accessTimes, written, pendingRequests, requests, calls,
                 requestCount, errorCount, cacheHitCount, preloads>>

----------------------------------------------------------------------------
(* SpecCache: a CacheManager called directly, at any times *)

\* the keys, data and TTLs of the direct calls
CacheHours == {0, 1, 2}
CacheKeys == {generateCacheKey(h * MsPerHour, DefaultLocation.lat, DefaultLocation.lon) :
                h \in CacheHours}
\* the key whose set calls the history variable follows
ProbeKey == generateCacheKey(0, DefaultLocation.lat, DefaultLocation.lon)
\* the data stored under a key: two different samples for ProbeKey, one for the others
SamplesOf(key) == IF key = ProbeKey THEN {Samples[1], Samples[2]} ELSE {Samples[1]}
CacheTTLs == {0, 1}
\* the string patterns of invalidate: the date part of one key, and a part of the prefix
\* all keys share (which, like the empty string, every key includes)
CachePatterns == {<<>>} \cup {<<k[1]>> : k \in CacheKeys}

\* written, after a call that took the cache from c to c2 by set, invalidate or clear
Standing(c, c2) == IF written.key \in (DOMAIN c) \ (DOMAIN c2) THEN NoWrite ELSE written

CacheSet(key, data, customTTL) ==
  LET r == CM_set(cache, accessTimes, now, key, data, customTTL)
  IN  /\ cache' = r.cache
      /\ accessTimes' = r.accessTimes
      /\ written' = IF key = ProbeKey
                      THEN [key |-> key, data |-> data, at |-> now, ttl |-> customTTL]
                      ELSE Standing(cache, r.cache)
      /\ UNCHANGED <<uiVars, now, tz, dmVars>>

CacheGet(key) ==
  LET r == CM_get(cache, accessTimes, now, key)
  IN  /\ cache' = r.cache
      /\ accessTimes' = r.accessTimes
      /\ UNCHANGED <<uiVars, now, tz, written, dmVars>>

CacheHas(key) ==
  LET r == CM_has(cache, accessTimes, now, key)
  IN  /\ cache' = r.cache
      /\ accessTimes' = r.accessTimes
      /\ UNCHANGED <<uiVars, now, tz, written, dmVars>>

CacheInvalidate(pattern) ==
  LET r == CM_invalidate(cache, accessTimes, pattern)
  IN  /\ cache' = r.cache
      /\ accessTimes' = r.accessTimes
      /\ written' = Standing(cache, r.cache)
      /\ UNCHANGED <<uiVars, now, tz, dmVars>>

CacheCleanup ==
  LET r == CM_cleanup(cache, accessTimes, now)
  IN  /\ cache' = r.cache
      /\ accessTimes' = r.accessTimes
      /\ UNCHANGED <<uiVars, now, tz, written, dmVars>>

CacheClear ==
  /\ cache' = CM_clear.cache
  /\ accessTimes' = CM_clear.accessTimes
  /\ written' = NoWrite
  /\ UNCHANGED <<uiVars, now, tz, dmVars>>

NextCache ==
  \/ Tick
  \/ \E key \in CacheKeys, customTTL \in CacheTTLs : \E data \in SamplesOf(key) :
       CacheSet(key, data, customTTL)
  \/ \E key \in CacheKeys : CacheGet(key)
  \/ \E key \in CacheKeys : CacheHas(key)
  \/ \E pattern \in CachePatterns : CacheInvalidate(pattern)
  \/ CacheCleanup
  \/ CacheClear

\* the cache does not read the time zone: one is enough
InitCache == Init /\ tz = 0

SpecCache == InitCache /\ [][NextCache]_vars

----------------------------------------------------------------------------
(* GroundDataManager (src/unnamed/part_008).                                           *)
(* A retrieval is one fetchDataWithRetry promise:                                      *)
(*   [timestamp, lat, lon, key, caller, attempt, phase, delay, log, value]             *)
(*   phase: "fetching" (a fetchData call is awaited), "backoff" (the retry timer is    *)
(*          awaited), "resolved", "rejected"                                           *)
(*   log:   what the fetch collaborator answered, attempt by attempt (history)         *)
(* A call is one getDataForTime promise:                                               *)
(*   [key, kind, req, status, value]                                                   *)
(*   kind:  "hit" (served from the cache), "attached" (given the pending promise),     *)
(*          "initiator" (started the retrieval req)                                    *)
(* One event-loop task is one step: the continuations that run as microtasks when a    *)
(* promise settles (the code after `await requestPromise`, the attached callers'       *)
(* promises) run in the step that settles it.                                          *)

\* this.retryAttempts
retryAttempts == 3
\* this.retryDelay, in ms
retryDelay == 1000

\* what the fetch collaborator answers: every retrieval that succeeds is given a sample
\* of its own, and every failed attempt of a retrieval an error of its own, so that a
\* value that reaches the wrong caller, or the wrong attempt's error, shows
SampleOf(r) == Samples[r]
ErrorOf(attempt) == <<"e1", "e2", "e3", "e4">>[attempt]
\* what the fetchData call of retrieval r can settle with
FetchOutcomes(r) == {[ok |-> TRUE, v |-> SampleOf(r)],
                     [ok |-> FALSE, v |-> ErrorOf(requests[r].attempt)]}

\* the timestamps getDataForTime is called with: 00:00:00.000, 00:30:00.000 and
\* 01:00:00.001 UTC of the first day
DMTimestamps == {0, 30 * MsPerMinute, MsPerHour + 1}
DMLocations == {DefaultLocation}

RECURSIVE Pow2(_)
Pow2(n) == IF n = 0 THEN 1 ELSE 2 * Pow2(n - 1)

\* this.retryDelay * Math.pow(2, attempt - 1)
BackoffDelay(attempt) == retryDelay * Pow2(attempt - 1)

\* (a bug: one attempt fewer than retryAttempts)
LastAttempt_OneShort(attempt) == attempt = retryAttempts - 1

\* (a bug: one attempt more than retryAttempts)
LastAttempt_OneMore(attempt) == attempt = retryAttempts + 1

\* if (attempt === retryAttempts) throw error
LastAttempt(attempt) == attempt = retryAttempts

\* (a bug: the ledger is never consulted)
PendingHit_Never(pending, key) == FALSE

\* this.pendingRequests.has(cacheKey)
PendingHit(pending, key) == key \in DOMAIN pending

\* (a bug: the cache is consulted only on a forced refresh)
UseCache_Inverted(forceRefresh) == forceRefresh

\* if (!forceRefresh) { cachedData = this.cache.get(cacheKey) ... }
UseCache(forceRefresh) == ~forceRefresh

\* (a bug: the fallback is served to nobody)
FallbackFound_Never(ret) == FALSE

\* if (fallbackData) return fallbackData
FallbackFound(ret) == ret # Null

MapPut(m, key, v) == [k \in (DOMAIN m) \cup {key} |-> IF k = key THEN v ELSE m[k]]

NewCall(key, kind, req, status, value) ==
  [key |-> key, kind |-> kind, req |-> req, status |-> status, value |-> value]

\* the fields of the data manager that getDataForTime reads and writes
ManagerState ==
  [cache |-> cache, accessTimes |-> accessTimes, pendingRequests |-> pendingRequests,
   requests |-> requests, calls |-> calls, cacheHitCount |-> cacheHitCount]

\* getDataForTime up to its first await (or its return), on a manager state st
getDataForTime(st, timestamp, lat, lon, forceRefresh) ==
  LET cacheKey == generateCacheKey(timestamp, lat, lon)
      g == IF UseCache(forceRefresh)
             THEN CM_get(st.cache, st.accessTimes, now, cacheKey)
             ELSE [cache |-> st.cache, accessTimes |-> st.accessTimes, ret |-> Null]
      looked == [st EXCEPT !.cache = g.cache, !.accessTimes = g.accessTimes]
  IN  IF g.ret # Null
        THEN \* cache hit
             [looked EXCEPT
                !.cacheHitCount = @ + 1,
                !.calls = Append(@, NewCall(cacheKey, "hit", 0, "resolved", g.ret))]
      ELSE IF PendingHit(st.pendingRequests, cacheKey)
        THEN \* return this.pendingRequests.get(cacheKey)
             [looked EXCEPT
                !.calls = Append(@, NewCall(cacheKey, "attached", st.pendingRequests[cacheKey],
                                            "pending", Null))]
        ELSE \* fetchDataWithRetry runs to its first await: attempt 1 calls fetchData
             [looked EXCEPT
                !.requests = Append(@,
                   [timestamp |-> timestamp, lat |-> lat, lon |-> lon, key |-> cacheKey,
                    caller |-> Len(st.calls) + 1, attempt |-> 1,
                    phase |-> "fetching", delay |-> 0, log |-> <<>>, value |-> Null]),
                !.pendingRequests = MapPut(@, cacheKey, Len(st.requests) + 1),
                !.calls = Append(@, NewCall(cacheKey, "initiator", Len(st.requests) + 1,
                                            "pending", Null))]

\* a caller calls getDataForTime
GetDataForTime(timestamp, lat, lon, forceRefresh) ==
  LET st == getDataForTime(ManagerState, timestamp, lat, lon, forceRefresh)
  IN  /\ Len(calls) < MaxCalls
      /\ cache' = st.cache
      /\ accessTimes' = st.accessTimes
      /\ pendingRequests' = st.pendingRequests
      /\ requests' = st.requests
      /\ calls' = st.calls
      /\ cacheHitCount' = st.cacheHitCount
      /\ lastCall' = [timestamp |-> timestamp, lat |-> lat, lon |-> lon,
                      forceRefresh |-> forceRefresh]
      /\ UNCHANGED <<uiVars, now, tz, written, requestCount, errorCount, preloads>>

\* this.maxConcurrentRequests
maxConcurrentRequests == 3

\* chunks.length for promises.length = n
ChunkCount(n) == (n + maxConcurrentRequests - 1) \div maxConcurrentRequests

\* the i-th chunk (from 1): promises.slice(j, j + maxConcurrentRequests)
Chunk(promises, i) ==
  SubSeq(promises, (i - 1) * maxConcurrentRequests + 1,
         IF i * maxConcurrentRequests < Len(promises)
           THEN i * maxConcurrentRequests ELSE Len(promises))

\* (a bug: the preload promises are pushed without their catch handler)
Caught_None(status) == status

\* getDataForTime(...).catch(error => {...}): the promise pushed resolves when the call's
\* promise resolves and also when it rejects
Caught(status) == IF status = "rejected" THEN "resolved" ELSE status

\* preloadAdjacentData from `await Promise.all(chunk)` of the chunk p.chunk on, with the
\* calls' promises as they are in cs: Promise.all rejects when one of its promises has,
\* and resolves when all have; the pause follows every chunk if there is more than one
RECURSIVE AwaitChunk(_, _)
AwaitChunk(p, cs) ==
  LET chunk == Chunk(p.promises, p.chunk)
      settled == {Caught(cs[chunk[j]].status) : j \in 1..Len(chunk)}
  IN  IF p.chunk > ChunkCount(Len(p.promises)) THEN [p EXCEPT !.phase = "resolved"]
      ELSE IF "rejected" \in settled THEN [p EXCEPT !.phase = "rejected"]
      ELSE IF "pending" \in settled THEN [p EXCEPT !.phase = "awaiting"]
      ELSE IF ChunkCount(Len(p.promises)) > 1 THEN [p EXCEPT !.phase = "pausing"]
      ELSE AwaitChunk([p EXCEPT !.chunk = @ + 1], cs)

\* the preload calls that await a chunk go on when the calls' promises settle to cs
Continue(ps, cs) ==
  [i \in 1..Len(ps) |-> IF ps[i].phase = "awaiting" THEN AwaitChunk(ps[i], cs) ELSE ps[i]]

\* the promises of the callers that were handed requestPromise itself settle as it does
\* (a bug: the attached callers are never told)
SettleAttached_None(cs, r, status, value) == cs

SettleAttached(cs, r, status, value) ==
  [c \in 1..Len(cs) |->
     IF cs[c].kind = "attached" /\ cs[c].req = r
       THEN [cs[c] EXCEPT !.status = status, !.value = value]
       ELSE cs[c]]

\* (a bug: the fetched data is not cached)
Populate_Skipped(c, a, t, key, data) == [cache |-> c, accessTimes |-> a, ret |-> Null]

\* this.cache.set(cacheKey, data)
Populate(c, a, t, key, data) == CM_set(c, a, t, key, data, 0)

\* (a bug: the failure is cached)
Fallback_Cached(c, a, t, key) == CM_set(c, a, t, key, Null, 0)

\* const fallbackData = this.cache.get(cacheKey)
Fallback(c, a, t, key) == CM_get(c, a, t, key)

\* (a bug: the key is left in the ledger)
LedgerDelete_Never(pending, key) == pending

\* finally { this.pendingRequests.delete(cacheKey) }
LedgerDelete(pending, key) == Remove(pending, {key})

\* the fetchData call of retrieval r resolves: fetchDataWithRetry returns the data, and
\* getDataForTime continues after `await requestPromise` (try block, then finally)
FetchSucceeds(r, data) ==
  LET req == requests[r]
      s == Populate(cache, accessTimes, now, req.key, data)
  IN  /\ requestCount' = requestCount + 1
      /\ requests' = [requests EXCEPT ![r].phase = "resolved", ![r].value = data,
                                      ![r].log = Append(@, [ok |-> TRUE, v |-> data])]
      /\ cache' = s.cache
      /\ accessTimes' = s.accessTimes
      /\ calls' = [SettleAttached(calls, r, "resolved", data)
                     EXCEPT ![req.caller].status = "resolved", ![req.caller].value = data]
      /\ preloads' = Continue(preloads, calls')
      /\ pendingRequests' = LedgerDelete(pendingRequests, req.key)
      /\ lastCall' = NoCall
      /\ UNCHANGED <<uiVars, now, tz, written, errorCount, cacheHitCount>>

\* the fetchData call of retrieval r rejects on an attempt that is not the last: the
\* backoff timer is started
FetchFailsRetry(r, error) ==
  LET req == requests[r]
  IN  /\ ~LastAttempt(req.attempt)
      /\ requests' = [requests EXCEPT ![r].phase = "backoff",
                                      ![r].delay = BackoffDelay(req.attempt),
                                      ![r].log = Append(@, [ok |-> FALSE, v |-> error])]
      /\ lastCall' = NoCall
      /\ UNCHANGED <<uiVars, now, tz, cache, accessTimes, written, pendingRequests, calls,
                     requestCount, errorCount, cacheHitCount, preloads>>

\* the fetchData call of retrieval r rejects on the last attempt: fetchDataWithRetry
\* throws, and getDataForTime continues in its catch block, then finally
FetchFailsLast(r, error) ==
  LET req == requests[r]
      g == Fallback(cache, accessTimes, now, req.key)
  IN  /\ LastAttempt(req.attempt)
      /\ errorCount' = errorCount + 1
      /\ requests' = [requests EXCEPT ![r].phase = "rejected", ![r].value = error,
                                      ![r].log = Append(@, [ok |-> FALSE, v |-> error])]
      /\ cache' = g.cache
      /\ accessTimes' = g.accessTimes
      /\ calls' = IF FallbackFound(g.ret)
                    THEN [SettleAttached(calls, r, "rejected", error)
                            EXCEPT ![req.caller].status = "resolved", ![req.caller].value = g.ret]
                    ELSE [SettleAttached(calls, r, "rejected", error)
                            EXCEPT ![req.caller].status = "rejected", ![req.caller].value = error]
      /\ preloads' = Continue(preloads, calls')
      /\ pendingRequests' = LedgerDelete(pendingRequests, req.key)
      /\ lastCall' = NoCall
      /\ UNCHANGED <<uiVars, now, tz, written, requestCount, cacheHitCount>>

FetchSettles(r, outcome) ==
  /\ requests[r].phase = "fetching"
  /\ IF outcome.ok THEN FetchSucceeds(r, outcome.v)
     ELSE \/ FetchFailsRetry(r, outcome.v)
          \/ FetchFailsLast(r, outcome.v)

\* the backoff timer of retrieval r fires: the loop goes on to the next attempt, which
\* calls fetchData. The timer's delay is in ms; how far the clock `now` has moved when
\* it fires is left open.
BackoffTimerFires(r) ==
  /\ requests[r].phase = "backoff"
  /\ requests' = [requests EXCEPT ![r].phase = "fetching", ![r].attempt = @ + 1]
  /\ lastCall' = NoCall
  /\ UNCHANGED <<uiVars, now, tz, cache, accessTimes, written, pendingRequests, calls,
                 requestCount, errorCount, cacheHitCount, preloads>>

\* GroundDataManager.cleanup, run by setInterval (as is CacheManager.cleanup): the expired
\* entries are removed; no pending request is removed, since no promise has a startTime
Cleanup ==
  LET r == CM_cleanup(cache, accessTimes, now)
  IN  /\ cache' = r.cache
      /\ accessTimes' = r.accessTimes
      /\ lastCall' = NoCall
      /\ UNCHANGED <<uiVars, now, tz, written, pendingRequests, requests, calls,
                     requestCount, errorCount, cacheHitCount, preloads>>

Next ==
  \/ Tick
  \/ \E timestamp \in DMTimestamps, loc \in DMLocations, forceRefresh \in BOOLEAN :
       GetDataForTime(timestamp, loc.lat, loc.lon, forceRefresh)
  \/ \E r \in 1..Len(requests) : \E outcome \in FetchOutcomes(r) : FetchSettles(r, outcome)
  \/ \E r \in 1..Len(requests) : BackoffTimerFires(r)
  \/ Cleanup

\* the data manager in an environment whose local time is UTC
InitUTC == Init /\ tz = 0

Spec == InitUTC /\ [][Next]_vars

\* the data manager in any of the modelled time zones
SpecTZ == Init /\ [][Next]_vars

\* every fetch attempt eventually settles and every backoff timer eventually fires
Fairness ==
  \A r \in 1..MaxCalls :
    /\ WF_vars(r <= Len(requests) /\ \E outcome \in FetchOutcomes(r) : FetchSettles(r, outcome))
    /\ WF_vars(r <= Len(requests) /\ BackoffTimerFires(r))

FairSpec == Spec /\ Fairness

----------------------------------------------------------------------------
(* The data manager with callers that pass any coordinates and a server that can answer *)
(* status 'success' with a sample that lacks a required field.                          *)

\* the fields GroundData.isValid requires
RequiredFields == {"timestamp", "location.lat", "location.lon",
                   "metrics.temperature.current", "metrics.humidity",
                   "metrics.pressure.current"}

\* the malformed samples a fetch can return, one per retrieval
InvalidSamples == <<"x1", "x2", "x3", "x4">>
InvalidSampleOf(r) == InvalidSamples[r]

\* the fields a sample carries: every well-formed sample has them all, and each
\* malformed one lacks one
FieldsOf(data) ==
  IF data = InvalidSamples[1] THEN RequiredFields \ {"timestamp"}
  ELSE IF data = InvalidSamples[2] THEN RequiredFields \ {"location.lat"}
  ELSE IF data = InvalidSamples[3] THEN RequiredFields \ {"metrics.humidity"}
  ELSE IF data = InvalidSamples[4] THEN RequiredFields \ {"metrics.pressure.current"}
  ELSE RequiredFields

\* GroundData.isValid: every required field is present
isValid(data) == RequiredFields \subseteq FieldsOf(data)

\* a location outside the range: latitude 91
BadLocation == [lat |-> 91000, lon |-> 0]

\* validateLocation, on thousandths of a degree
validateLocation(lat, lon) ==
  /\ lat >= -90000 /\ lat <= 90000
  /\ lon >= -180000 /\ lon <= 180000

\* what the fetchData call of retrieval r can settle with: the server answers 400 for
\* coordinates out of range (`!response.ok`, fetchData throws), and otherwise result.data
\* is returned as it came
FetchOutcomesUnchecked(r) ==
  IF validateLocation(requests[r].lat, requests[r].lon)
    THEN FetchOutcomes(r) \cup {[ok |-> TRUE, v |-> InvalidSampleOf(r)]}
    ELSE {[ok |-> FALSE, v |-> ErrorOf(requests[r].attempt)]}

UncheckedLocations == {DefaultLocation, BadLocation}
UncheckedTimestamps == {0, MsPerHour + 1}

NextUnchecked ==
  \/ Tick
  \/ \E timestamp \in UncheckedTimestamps, loc \in UncheckedLocations,
        forceRefresh \in BOOLEAN :
       GetDataForTime(timestamp, loc.lat, loc.lon, forceRefresh)
  \/ \E r \in 1..Len(requests) : \E outcome \in FetchOutcomesUnchecked(r) :
       FetchSettles(r, outcome)
  \/ \E r \in 1..Len(requests) : BackoffTimerFires(r)
  \/ Cleanup

SpecUnchecked == InitUTC /\ [][NextUnchecked]_vars

----------------------------------------------------------------------------
(* GroundDataManager.preloadAdjacentData                                                *)
(* A preload is one preloadAdjacentData promise:                                        *)
(*   [centerTimestamp, hoursRadius, promises, chunk, phase]                             *)
(*   centerTimestamp, hoursRadius: the arguments (history)                              *)
(*   promises: the calls (indexes into calls) whose caught promises were pushed         *)
(*   chunk:    the chunk that is awaited, or whose pause is awaited (from 1)            *)
(*   phase:    "awaiting" (Promise.all(chunk)), "pausing" (the 100ms timer),            *)
(*             "resolved", "rejected"                                                   *)

\* (a bug: the center is preloaded too)
SkipCenter_Never(offset) == FALSE

\* if (offset === 0) continue
SkipCenter(offset) == offset = 0

\* the loop over the offsets from `offset` on: st is the manager state with the promises
\* pushed so far
RECURSIVE PreloadLoop(_, _, _, _, _, _)
PreloadLoop(st, centerTime, offset, hoursRadius, lat, lon) ==
  IF offset > hoursRadius THEN st
  ELSE IF SkipCenter(offset)
    THEN PreloadLoop(st, centerTime, offset + 1, hoursRadius, lat, lon)
  ELSE
    LET targetTime == centerTime + offset * MsPerHour
        cacheKey == generateCacheKey(targetTime, lat, lon)
        h == CM_has(st.cache, st.accessTimes, now, cacheKey)
        looked == [st EXCEPT !.cache = h.cache, !.accessTimes = h.accessTimes]
        called == getDataForTime(looked, targetTime, lat, lon, FALSE)
    IN  IF ~h.ret /\ ~PendingHit(looked.pendingRequests, cacheKey)
          THEN PreloadLoop([called EXCEPT !.promises = Append(@, Len(called.calls))],
                           centerTime, offset + 1, hoursRadius, lat, lon)
          ELSE PreloadLoop(looked, centerTime, offset + 1, hoursRadius, lat, lon)

\* preloadAdjacentData up to its first await (or its return): the loop makes every call,
\* then the first chunk is awaited. No more retrievals are started than there are samples.
PreloadAdjacentData(centerTimestamp, hoursRadius, lat, lon) ==
  LET start == [cache |-> cache, accessTimes |-> accessTimes,
                pendingRequests |-> pendingRequests, requests |-> requests,
                calls |-> calls, cacheHitCount |-> cacheHitCount, promises |-> <<>>]
      st == PreloadLoop(start, centerTimestamp, 0 - hoursRadius, hoursRadius, lat, lon)
  IN  /\ Len(preloads) < MaxPreloads
      /\ Len(calls) + 2 * hoursRadius <= Len(Samples)
      /\ cache' = st.cache
      /\ accessTimes' = st.accessTimes
      /\ pendingRequests' = st.pendingRequests
      /\ requests' = st.requests
      /\ calls' = st.calls
      /\ cacheHitCount' = st.cacheHitCount
      /\ preloads' = Append(preloads,
                            AwaitChunk([centerTimestamp |-> centerTimestamp,
                                        hoursRadius |-> hoursRadius,
                                        promises |-> st.promises, chunk |-> 1,
                                        phase |-> "awaiting"], st.calls))
      /\ lastCall' = NoCall
      /\ UNCHANGED <<uiVars, now, tz, written, requestCount, errorCount>>

\* the 100ms timer after a chunk fires: the loop goes on to the next chunk, or ends
PauseElapsed(i) ==
  /\ preloads[i].phase = "pausing"
  /\ preloads' = [preloads EXCEPT ![i] = AwaitChunk([@ EXCEPT !.chunk = @ + 1], calls)]
  /\ lastCall' = NoCall
  /\ UNCHANGED <<uiVars, now, tz, cache, accessTimes, written, pendingRequests, requests,
                 calls, requestCount, errorCount, cacheHitCount>>

\* the center preloadAdjacentData is called with (02:00 UTC of the first day) and the
\* timestamp getDataForTime is called with (the hour before it)
PreloadCenters == {2 * MsPerHour}
PreloadTimestamps == {MsPerHour}

NextPreload ==
  \/ Tick
  \/ \E timestamp \in PreloadTimestamps :
       GetDataForTime(timestamp, DefaultLocation.lat, DefaultLocation.lon, FALSE)
  \/ \E centerTimestamp \in PreloadCenters, hoursRadius \in 1..MaxRadius :
       PreloadAdjacentData(centerTimestamp, hoursRadius,
                           DefaultLocation.lat, DefaultLocation.lon)
  \/ \E r \in 1..Len(requests) : \E outcome \in FetchOutcomes(r) : FetchSettles(r, outcome)
  \/ \E r \in 1..Len(requests) : BackoffTimerFires(r)
  \/ \E i \in 1..Len(preloads) : PauseElapsed(i)
  \/ Cleanup

SpecPreload == InitUTC /\ [][NextPreload]_vars

\* every fetch attempt eventually settles, and every backoff timer and every pause timer
\* eventually fires
FairnessPreload ==
  /\ \A r \in 1..Len(Samples) :
       /\ WF_vars(r <= Len(requests)
                    /\ \E outcome \in FetchOutcomes(r) : FetchSettles(r, outcome))
       /\ WF_vars(r <= Len(requests) /\ BackoffTimerFires(r))
  /\ \A i \in 1..MaxPreloads : WF_vars(i <= Len(preloads) /\ PauseElapsed(i))

FairSpecPreload == SpecPreload /\ FairnessPreload

----------------------------------------------------------------------------
(* ValueInterpolator (src/unnamed/part_007)                                            *)

Range(f) == {f[i] : i \in DOMAIN f}

Min(a, b) == IF a < b THEN a ELSE b
Max(a, b) == IF a > b THEN a ELSE b

\* (a bug: the progress is used as given)
Clamp_None(progress) == progress

\* Math.max(0, Math.min(1, progress))
Clamp(progress) == Max(0, Min(ProgressDen, progress))

\* (a bug: the interpolated value is cut to a whole number)
lerp_Whole(start, end, t) == ((start + ((end - start) * t) \div ProgressDen) \div Unit) * Unit

\* start + (end - start) * t
lerp(start, end, t) == start + ((end - start) * t) \div ProgressDen

\* Math.round: the nearest whole number, halves upwards
MathRound(x) == ((2 * x + Unit) \div (2 * Unit)) * Unit

interpolateMetrics(startMetrics, endMetrics, progress) ==
  [startMetrics EXCEPT
     !.temperature =
        [@ EXCEPT !.current = lerp(startMetrics.temperature.current,
                                   endMetrics.temperature.current, progress),
                  !.feelsLike = lerp(startMetrics.temperature.feelsLike,
                                     endMetrics.temperature.feelsLike, progress)],
     !.humidity = MathRound(lerp(startMetrics.humidity, endMetrics.humidity, progress)),
     !.pressure =
        [@ EXCEPT !.current = lerp(startMetrics.pressure.current,
                                   endMetrics.pressure.current, progress)]]

interpolate(startData, endData, progress) ==
  LET clampedProgress == Clamp(progress)
  IN  IF clampedProgress = 0 THEN startData
      ELSE IF clampedProgress = ProgressDen THEN endData
      ELSE [startData EXCEPT
              !.metrics = interpolateMetrics(startData.metrics, endData.metrics,
                                             clampedProgress)]

\* the samples and progress values interpolate is called with: temperatures and pressures
\* in halves, humidity in whole percents, progress in quarters from -1 to 2
InterpTemperatures == {10 * Unit, 20 * Unit, 21 * (Unit \div 2), -5 * Unit}
InterpFeelsLike == {9 * Unit, 23 * (Unit \div 2)}
InterpHumidities == {40 * Unit, 41 * Unit, 45 * Unit}
InterpPressures == {1013 * Unit, 2027 * (Unit \div 2)}
InterpSamples ==
  {Sample(timestamp, current, feelsLike, humidity, pressure) :
     timestamp \in {0, MsPerHour}, current \in InterpTemperatures,
     feelsLike \in InterpFeelsLike, humidity \in InterpHumidities,
     pressure \in InterpPressures}
InterpProgress == (0 - ProgressDen)..(2 * ProgressDen)

Interpolate ==
  /\ interp.result = <<>>
  /\ interp' = [interp EXCEPT
                  !.result = <<interpolate(interp.startData, interp.endData, interp.progress)>>]
  /\ UNCHANGED <<now, tz, cacheVars, written, dmVars, timelineVars, appVars>>

NextInterp == Interpolate

InitInterp ==
  /\ InitServices
  /\ tz = 0
  /\ interp \in [startData : InterpSamples, endData : InterpSamples,
                 progress : InterpProgress, result : {<<>>}]
  /\ interp.startData.timestamp = 0
  /\ interp.endData.timestamp = MsPerHour
  /\ InitTimelineVars
  /\ hourWidth = 80 * PosScale

SpecInterp == InitInterp /\ [][NextInterp]_vars

----------------------------------------------------------------------------
(* Timeline (src/unnamed/part_009).                                                    *)
(* The pointer is modelled by the distance it moved since the last event (deltaX =     *)
(* clientX - dragStartX, and dragStartX follows the pointer). Timers fire at their     *)
(* deadline and every running animation gets one frame per tick.                       *)

\* bounds: the ticks the clock runs for, the input events handled, the animation loops
\* running at once
MaxClock == 8
MaxInputs == 4
MaxAnimations == 1

\* one tick of the clock, in ms
TickMs == 5 * 10
\* animateToPosition: duration, in ms
duration == 300

\* Math.round(this.scrollPosition / this.hourWidth): halves upwards
RoundHours(position, hw) == (2 * position + hw) \div (2 * hw)

RECURSIVE GCD(_, _)
GCD(a, b) == IF b = 0 THEN a ELSE GCD(b, a % b)

\* new Date(anchor + hours * 60 * 60 * 1000) for hours = offset / hw: the fraction of a
\* millisecond is cut off (the time value is positive, so downwards)
HoursToMs(offset, hw) ==
  LET g == GCD(MsPerHour, hw)
  IN  (offset \div hw) * MsPerHour + ((offset % hw) * (MsPerHour \div g)) \div (hw \div g)

\* (a bug: the hours are counted from the left end of the timeline)
getCurrentTimestamp_FromLeft(position, hw, anchor) == anchor + HoursToMs(position, hw)

\* getCurrentTimestamp: anchor + (scrollPosition / hourWidth - centerHour) hours
getCurrentTimestamp(position, hw, anchor) ==
  anchor + HoursToMs(position - centerHour * hw, hw)

Cube(x) == x * x * x
\* the ticks of one animation
DurationTicks == duration \div TickMs
\* Math.min(elapsed / duration, 1), in ticks
Progress(elapsed) == Min(elapsed, DurationTicks)
\* startPosition + distance * easedProgress, easedProgress = 1 - (1 - progress)^3
EasedPosition(startPosition, distance, elapsed) ==
  startPosition
    + (distance * (Cube(DurationTicks) - Cube(DurationTicks - Progress(elapsed))))
        \div Cube(DurationTicks)

\* the ticks of the debounce delay
DebounceTicks == debounceDelay \div TickMs

\* the timer emitTimeChange leaves: the pending one is cleared, and a new one is started
\* unless the user is dragging
EmitTimeChange(dragging, t) == IF dragging THEN NoTimer ELSE t + DebounceTicks

\* (a bug: the pending timer is left to fire)
ClearTimeout_Never(pending, handle) == pending

\* if (this.debounceTimeout) clearTimeout(this.debounceTimeout): the timer the handle
\* names is taken from the pending ones
ClearTimeout(pending, handle) ==
  IF \E i \in 1..Len(pending) : pending[i] = handle
    THEN LET i == CHOOSE i \in 1..Len(pending) : pending[i] = handle
         IN  [j \in 1..(Len(pending) - 1) |-> IF j < i THEN pending[j] ELSE pending[j + 1]]
    ELSE pending

\* the pending timers emitTimeChange leaves
EmitTimers(pending, handle, dragging, t) ==
  IF dragging THEN ClearTimeout(pending, handle)
  ELSE Append(ClearTimeout(pending, handle), t + DebounceTicks)

\* what no Timeline method touches
otherVars == <<now, tz, cacheVars, written, dmVars, interp, appVars>>

\* an onTimeChange call
Notification(position, source, immediate, after) ==
  [timestamp |-> getCurrentTimestamp(position, hourWidth, currentTimestamp),
   source |-> source, immediate |-> immediate, after |-> after]

Input(kind, deltaX) == [kind |-> kind, deltaX |-> deltaX]

\* the distances the pointer moves between two move events
DragDeltas == {0 - hourWidth, hourWidth \div 2, 10 * PosScale}

\* the jump field of an animation loop that jumpToTime did not start
NoJump == [timestamp |-> 0, hourWidth |-> 0]

\* snapToHour, animateToPosition: the loop that is started
SnapAnimation(position) ==
  [startPosition |-> position,
   distance |-> RoundHours(position, hourWidth) * hourWidth - position,
   startTime |-> clock, lastFrame |-> clock, jump |-> NoJump]

HandleMouseDown ==
  /\ Len(inputs) < MaxInputs
  /\ isDragging' = TRUE
  /\ inputs' = Append(inputs, Input("down", 0))
  /\ burst' = [moves |-> 0, rapid |-> TRUE, lastAt |-> clock, base |-> Len(notifications)]
  /\ UNCHANGED <<otherVars, clock, currentTimestamp, hourWidth, scrollPosition, debounceTimeout,
                 timers, wheelTimeout, animations, notifications>>

\* handleMouseMove, handleTouchMove: updateScrollPosition(deltaX)
HandleMouseMove(deltaX) ==
  /\ Len(inputs) < MaxInputs
  /\ isDragging
  /\ scrollPosition' = scrollPosition + deltaX
  /\ debounceTimeout' = EmitTimeChange(isDragging, clock)
  /\ timers' = EmitTimers(timers, debounceTimeout, isDragging, clock)
  /\ inputs' = Append(inputs, Input("move", deltaX))
  /\ burst' = [burst EXCEPT !.moves = @ + 1, !.lastAt = clock,
                            !.rapid = @ /\ clock <= burst.lastAt + 1]
  /\ UNCHANGED <<otherVars, clock, currentTimestamp, hourWidth, isDragging, wheelTimeout,
                 animations, notifications>>

\* handleMouseUp, handleTouchEnd: snapToHour(), then emitTimeChangeImmediate()
HandleMouseUp ==
  /\ Len(inputs) < MaxInputs
  /\ Len(animations) < MaxAnimations
  /\ isDragging
  /\ isDragging' = FALSE
  /\ animations' = Append(animations, SnapAnimation(scrollPosition))
  /\ inputs' = Append(inputs, Input("up", 0))
  /\ burst' = NoBurst
  /\ debounceTimeout' = NoTimer
  /\ timers' = ClearTimeout(timers, debounceTimeout)
  /\ notifications' = Append(notifications, Notification(scrollPosition, "user", TRUE, Len(inputs) + 1))
  /\ UNCHANGED <<otherVars, clock, currentTimestamp, hourWidth, scrollPosition, wheelTimeout>>

\* one requestAnimationFrame callback of the i-th running animation (the callbacks of a
\* frame run in the order in which the loops were started)
AnimationFrame(i) ==
  LET a == animations[i]
      elapsed == clock - a.startTime
      position == EasedPosition(a.startPosition, a.distance, elapsed)
  IN  /\ a.lastFrame < clock
      /\ \A j \in 1..(i - 1) : animations[j].lastFrame = clock
      /\ scrollPosition' = position
      /\ IF Progress(elapsed) < DurationTicks
           THEN /\ animations' = [animations EXCEPT ![i].lastFrame = clock]
                /\ debounceTimeout' = EmitTimeChange(isDragging, clock)
                /\ timers' = EmitTimers(timers, debounceTimeout, isDragging, clock)
                /\ UNCHANGED notifications
           ELSE /\ animations' = [j \in 1..(Len(animations) - 1) |->
                                    IF j < i THEN animations[j] ELSE animations[j + 1]]
                /\ debounceTimeout' = NoTimer
                /\ timers' = ClearTimeout(timers, debounceTimeout)
                /\ notifications' = Append(notifications, Notification(position, "user", TRUE, Len(inputs)))
      /\ UNCHANGED <<otherVars, clock, currentTimestamp, hourWidth, isDragging, wheelTimeout,
                     inputs, burst>>

\* handleResize: calculateDimensions() chooses the hour width for the window's width,
\* then updateTimelinePosition()
HandleResize(hw) ==
  /\ Len(inputs) < MaxInputs
  /\ hourWidth' = hw
  /\ debounceTimeout' = EmitTimeChange(isDragging, clock)
  /\ timers' = EmitTimers(timers, debounceTimeout, isDragging, clock)
  /\ inputs' = Append(inputs, Input("resize", 0))
  /\ UNCHANGED <<otherVars, clock, currentTimestamp, scrollPosition, isDragging, wheelTimeout,
                 animations, notifications, burst>>

\* diffMs / (60 * 60 * 1000) * this.hourWidth, cut to a position unit
MsToPosition(ms, hw) ==
  LET g == GCD(MsPerHour, hw)
  IN  (ms \div MsPerHour) * hw + ((ms % MsPerHour) * (hw \div g)) \div (MsPerHour \div g)

\* (a bug: the jump moves the anchor to the timestamp)
Reanchor_Always(anchor, timestamp) == timestamp

\* no Timeline method assigns this.currentTimestamp after the constructor
Reanchor(anchor, timestamp) == anchor

\* jumpToTime: targetPosition
JumpTarget(timestamp, hw, anchor, clientWidth) ==
  MsToPosition(timestamp - (anchor - 24 * MsPerHour), hw) - clientWidth \div 2

\* this.container.clientWidth, in position units (320px and 800px)
ClientWidths == {320 * PosScale, 800 * PosScale}
\* the timestamps jumpToTime is called with: the one the timeline shows, and one hour
\* after the anchor
JumpTimestamps ==
  {getCurrentTimestamp(scrollPosition, hourWidth, currentTimestamp), Anchor + MsPerHour}

\* jumpToTime(timestamp): animateToPosition(targetPosition) starts the loop
JumpToTime(timestamp, clientWidth) ==
  /\ Len(inputs) < MaxInputs
  /\ Len(animations) < MaxAnimations
  /\ animations' = Append(animations,
       [startPosition |-> scrollPosition,
        distance |-> JumpTarget(timestamp, hourWidth, currentTimestamp, clientWidth)
                       - scrollPosition,
        startTime |-> clock, lastFrame |-> clock,
        jump |-> [timestamp |-> timestamp, hourWidth |-> hourWidth]])
  /\ inputs' = Append(inputs, Input("jump", 0))
  /\ currentTimestamp' = Reanchor(currentTimestamp, timestamp)
  /\ UNCHANGED <<otherVars, clock, hourWidth, scrollPosition, isDragging, debounceTimeout,
                 timers, wheelTimeout, notifications, burst>>

\* the debounce timer fires (frames come more often than ticks: a frame of this tick
\* has run, and cleared the timer, before a timer that is due at this tick)
DebounceFires ==
  \E t \in Range(timers) :
    /\ t <= clock
    /\ \A i \in 1..Len(animations) : animations[i].lastFrame = clock
    /\ timers' = ClearTimeout(timers, t)
    /\ debounceTimeout' = IF t = debounceTimeout THEN NoTimer ELSE debounceTimeout
    /\ notifications' = Append(notifications,
         Notification(scrollPosition, IF isDragging THEN "user" ELSE "auto", FALSE, Len(inputs)))
    /\ UNCHANGED <<otherVars, clock, currentTimestamp, hourWidth, scrollPosition, isDragging,
                   wheelTimeout, animations, inputs, burst>>

\* time passes: no timer is due and every running animation has had its frame
ClockAdvances ==
  /\ \A t \in Range(timers) : t > clock
  /\ wheelTimeout = NoTimer \/ wheelTimeout > clock
  /\ \A i \in 1..Len(animations) : animations[i].lastFrame = clock
  /\ clock' = clock + 1
  /\ UNCHANGED <<otherVars, currentTimestamp, hourWidth, scrollPosition, isDragging, debounceTimeout,
                 timers, wheelTimeout, animations, inputs, notifications, burst>>

TimelineTick == clock < MaxClock /\ ClockAdvances

NextTimeline ==
  \/ HandleMouseDown
  \/ \E deltaX \in DragDeltas : HandleMouseMove(deltaX)
  \/ HandleMouseUp
  \/ \E hw \in HourWidths : HandleResize(hw)
  \/ \E i \in 1..Len(animations) : AnimationFrame(i)
  \/ DebounceFires
  \/ TimelineTick

InitTimeline == InitServices /\ tz = 0 /\ interp = NoInterp /\ InitTimelineVars

SpecTimeline == InitTimeline /\ [][NextTimeline]_vars

\* the timeline with its programmatic navigation too
NextNavigation ==
  \/ NextTimeline
  \/ \E timestamp \in JumpTimestamps, clientWidth \in ClientWidths :
       JumpToTime(timestamp, clientWidth)

SpecNavigation == InitTimeline /\ [][NextNavigation]_vars

\* the keyboard and the wheel: the ticks the clock runs for with the wheel, and the
\* animation loops running at once
MaxInputClock == 10
MaxOverlap == 2

\* handleWheel: the delay of the snap, in ms and in ticks
wheelDelay == 150
WheelTicks == wheelDelay \div TickMs

\* (a bug: the wheel's delta is not amplified)
WheelScroll_Plain(position, deltaX) == position - deltaX

\* const deltaX = event.deltaX * 2; this.updateScrollPosition(-deltaX)
WheelScroll(position, deltaX) == position - 2 * deltaX

\* event.deltaX of the wheel events: 10px, and an eighth of an hour backwards
WheelDeltas == {10 * PosScale, 0 - (hourWidth \div 8)}

\* handleWheel(event)
HandleWheel(deltaX) ==
  /\ Len(inputs) < MaxInputs
  /\ Len(animations) < MaxOverlap
  /\ scrollPosition' = WheelScroll(scrollPosition, deltaX)
  /\ debounceTimeout' = EmitTimeChange(isDragging, clock)
  /\ timers' = EmitTimers(timers, debounceTimeout, isDragging, clock)
  /\ wheelTimeout' = clock + WheelTicks
  /\ inputs' = Append(inputs, Input("wheel", deltaX))
  /\ UNCHANGED <<otherVars, clock, currentTimestamp, hourWidth, isDragging, animations,
                 notifications, burst>>

\* the wheel timer fires: snapToHour() (a frame of this tick has run before a timer that
\* is due at this tick)
WheelFires ==
  /\ wheelTimeout # NoTimer
  /\ wheelTimeout <= clock
  /\ Len(animations) < MaxOverlap
  /\ \A i \in 1..Len(animations) : animations[i].lastFrame = clock
  /\ wheelTimeout' = NoTimer
  /\ animations' = Append(animations, SnapAnimation(scrollPosition))
  /\ UNCHANGED <<otherVars, clock, currentTimestamp, hourWidth, scrollPosition, isDragging,
                 debounceTimeout, timers, inputs, notifications, burst>>

\* event.key of the key events
Keys == {"ArrowLeft", "ArrowRight", "Home", "PageUp", "PageDown", "Enter"}
MoveKeys == {"ArrowLeft", "ArrowRight", "PageUp", "PageDown"}

\* hoursToMove, in quarters of an hour
QuartersToMove(key) ==
  CASE key = "ArrowLeft" -> -1
    [] key = "ArrowRight" -> 1
    [] key = "PageUp" -> -4
    [] key = "PageDown" -> 4
    [] OTHER -> 0

\* handleKeyDown(event): moveByHours(hoursToMove) starts an animation loop, Home calls
\* centerOnCurrentTime(), any other key does nothing
HandleKeyDown(key) ==
  /\ Len(inputs) < MaxInputs
  /\ inputs' = Append(inputs, Input(key, 0))
  /\ IF key \in MoveKeys
       THEN /\ Len(animations) < MaxOverlap
            /\ animations' = Append(animations,
                 [startPosition |-> scrollPosition,
                  distance |-> (QuartersToMove(key) * hourWidth) \div 4,
                  startTime |-> clock, lastFrame |-> clock, jump |-> NoJump])
            /\ UNCHANGED <<scrollPosition, debounceTimeout, timers>>
     ELSE IF key = "Home"
       THEN /\ scrollPosition' = centerHour * hourWidth
            /\ debounceTimeout' = EmitTimeChange(isDragging, clock)
            /\ timers' = EmitTimers(timers, debounceTimeout, isDragging, clock)
            /\ UNCHANGED animations
     ELSE UNCHANGED <<scrollPosition, debounceTimeout, timers, animations>>
  /\ UNCHANGED <<otherVars, clock, currentTimestamp, hourWidth, isDragging, wheelTimeout,
                 notifications, burst>>

\* the timeline with its keyboard
NextKeyboard ==
  \/ \E key \in Keys : HandleKeyDown(key)
  \/ \E i \in 1..Len(animations) : AnimationFrame(i)
  \/ DebounceFires
  \/ TimelineTick

SpecKeyboard == InitUTC /\ [][NextKeyboard]_vars

WheelTick == clock < MaxInputClock /\ ClockAdvances

\* the timeline with its wheel, in a window that is resized
NextWheel ==
  \/ \E deltaX \in WheelDeltas : HandleWheel(deltaX)
  \/ WheelFires
  \/ \E hw \in HourWidths : HandleResize(hw)
  \/ \E i \in 1..Len(animations) : AnimationFrame(i)
  \/ DebounceFires
  \/ WheelTick

SpecWheel == InitUTC /\ [][NextWheel]_vars

----------------------------------------------------------------------------
(* EventBus (src/src/public/services-backup/EventBus.js) and the subscribers of         *)
(* GroundLayerState (src/src/public/services/GroundLayerState.js).                     *)
(* A Set of callbacks is the sequence of its entries in insertion order. While          *)
(* Set.prototype.forEach runs, a deleted entry leaves a hole (Hole) that the loop        *)
(* passes over, and an added entry goes to the end, where the loop reaches it.          *)

Hole == "hole"
\* the callbacks: "a" only takes the notification, "once" unsubscribes itself when
\* called (as the wrapper of EventBus.once does), "offA" unsubscribes "a" when called
Callbacks == {"a", "once", "offA"}
NoTarget == "none"
\* the callback that the callback cb unsubscribes when it is called
TargetOf(cb) ==
  CASE cb = "once" -> "once"
    [] cb = "offA" -> "a"
    [] OTHER -> NoTarget

\* Set.prototype.add
SetAdd(entries, cb) ==
  IF \E i \in 1..Len(entries) : entries[i] = cb THEN entries ELSE Append(entries, cb)

\* Set.prototype.delete while a forEach may be running
SetDelete(entries, cb) ==
  [i \in 1..Len(entries) |-> IF entries[i] = cb THEN Hole ELSE entries[i]]

IsEntry(e) == e # Hole
\* the entries of the set when no forEach is running
Compact(entries) == SelectSeq(entries, IsEntry)

\* callback(data): the callback runs, and unsubscribes its target if it has one
\* (off(eventName, target), unsubscribe(target))
CallBack(entries, cb) ==
  IF TargetOf(cb) = NoTarget THEN entries ELSE SetDelete(entries, TargetOf(cb))

\* set.forEach(callback => { try { callback(data) } catch ... }) from the entry at index
\* on: the entries that are left and the callbacks called, in order
RECURSIVE ForEach(_, _, _)
ForEach(entries, index, received) ==
  IF index > Len(entries) THEN [entries |-> Compact(entries), received |-> received]
  ELSE IF entries[index] = Hole THEN ForEach(entries, index + 1, received)
  ELSE ForEach(CallBack(entries, entries[index]), index + 1,
               Append(received, entries[index]))

\* what no method of the bus or of the subscriber set touches
notBus == <<now, tz, cacheVars, written, dmVars, interp, timelineVars, ows, probe, gls>>

\* EventBus.on(eventName, callback)
On(cb) ==
  /\ bus' = [bus EXCEPT !.listeners = SetAdd(@, cb)]
  /\ UNCHANGED notBus

\* EventBus.off(eventName, callback), called when no dispatch is running
Off(cb) ==
  /\ bus' = [bus EXCEPT !.listeners = Compact(SetDelete(@, cb))]
  /\ UNCHANGED notBus

\* EventBus.emit(eventName, data)
Emit ==
  LET run == ForEach(bus.listeners, 1, <<>>)
  IN  /\ bus' = [bus EXCEPT !.listeners = run.entries,
                            !.dispatched = [by |-> "emit", atStart |-> Range(bus.listeners),
                                            received |-> run.received]]
      /\ UNCHANGED notBus

\* GroundLayerState.subscribe(callback)
Subscribe(cb) ==
  /\ bus' = [bus EXCEPT !.subscribers = SetAdd(@, cb)]
  /\ UNCHANGED notBus

\* GroundLayerState.unsubscribe(callback), called when no dispatch is running
Unsubscribe(cb) ==
  /\ bus' = [bus EXCEPT !.subscribers = Compact(SetDelete(@, cb))]
  /\ UNCHANGED notBus

\* GroundLayerState.notifySubscribers(stateChange)
NotifySubscribers ==
  LET run == ForEach(bus.subscribers, 1, <<>>)
  IN  /\ bus' = [bus EXCEPT !.subscribers = run.entries,
                            !.dispatched = [by |-> "notifySubscribers",
                                            atStart |-> Range(bus.subscribers),
                                            received |-> run.received]]
      /\ UNCHANGED notBus

NextDispatch ==
  \/ \E cb \in Callbacks : On(cb)
  \/ \E cb \in Callbacks : Off(cb)
  \/ Emit
  \/ \E cb \in Callbacks : Subscribe(cb)
  \/ \E cb \in Callbacks : Unsubscribe(cb)
  \/ NotifySubscribers

SpecDispatch == InitUTC /\ [][NextDispatch]_vars

----------------------------------------------------------------------------
(* OpenWeatherService (src/unnamed/part_013), with its API key configured.              *)
(* A call runs to its first await in one step: the rate check, the cache lookup and the *)
(* increment of requestCount are not interleaved with anything. The response of an      *)
(* upstream request arrives in a later step.                                            *)

\* this.maxRequestsPerMinute
maxRequestsPerMinute == 60
\* the length of the rate window, in ms
RateWindowMs == 60000
\* the steps Date.now() advances by, in ms, and how many of them it makes
ClockStepMs == 30000
MaxClockSteps == 4
\* the upstream requests of one endpoint awaited at once
MaxPending == 1

\* the age up to which a cache entry is returned: 10 minutes, 30 minutes
MaxAgeMs(endpoint) == IF endpoint = "current" THEN 10 * MsPerMinute ELSE 30 * MsPerMinute

\* canMakeRequest, first part: the counter is reset every minute
ResetWindow(o) ==
  IF o.time - o.lastResetTime >= RateWindowMs
    THEN [o EXCEPT !.requestCount = 0, !.lastResetTime = o.time, !.issued = 0]
    ELSE o

\* (a bug: one request more than the limit is let through)
UnderLimit_Inclusive(count) == count <= maxRequestsPerMinute

\* canMakeRequest, the value returned: this.requestCount < this.maxRequestsPerMinute
UnderLimit(count) == count < maxRequestsPerMinute

\* isCacheValid(cacheEntry, maxAgeMs)
isCacheValid(entry, time, maxAgeMs) == entry # NoEntry /\ time - entry < maxAgeMs

\* getCurrentWeather and getForecastData up to the first await (or the return), on the
\* service o: the service after it, how the call went on and whether it issued a request
Fetch(o, endpoint) ==
  LET checked == ResetWindow(o)
  IN  IF ~UnderLimit(checked.requestCount)
        THEN [ows |-> checked, outcome |-> "rate limit", requests |-> 0]
      ELSE IF isCacheValid(checked.cache[endpoint], checked.time, MaxAgeMs(endpoint))
        THEN [ows |-> checked, outcome |-> "cached", requests |-> 0]
      ELSE [ows |-> [checked EXCEPT !.requestCount = @ + 1, !.issued = @ + 1,
                                    !.pending[endpoint] = @ + 1],
            outcome |-> "requested", requests |-> 1]

\* what no method of OpenWeatherService touches
notOws == <<now, tz, cacheVars, written, dmVars, interp, timelineVars, bus, probe, gls>>

\* getCurrentWeather(lat, lon), getForecastData(lat, lon)
GetWeather(endpoint) ==
  LET f == Fetch(ows, endpoint)
  IN  /\ ows.pending[endpoint] < MaxPending
      /\ ows' = [f.ows EXCEPT
                   !.last = [call |-> endpoint,
                             countBefore |-> ResetWindow(ows).requestCount,
                             outcome |-> f.outcome, requests |-> f.requests]]
      /\ UNCHANGED notOws

\* getTimelineData(lat, lon, hours): Promise.all([getCurrentWeather, getForecastData])
\* makes both calls before anything is awaited, and rejects with the first rejection
GetTimelineData ==
  LET c == Fetch(ows, "current")
      f == Fetch(c.ows, "forecast")
  IN  /\ ows.pending["current"] < MaxPending
      /\ ows.pending["forecast"] < MaxPending
      /\ ows' = [f.ows EXCEPT
                   !.last = [call |-> "timeline",
                             countBefore |-> ResetWindow(ows).requestCount,
                             outcome |-> IF "rate limit" \in {c.outcome, f.outcome}
                                           THEN "rate limit"
                                         ELSE IF "requested" \in {c.outcome, f.outcome}
                                           THEN "requested" ELSE "cached",
                             requests |-> c.requests + f.requests]]
      /\ UNCHANGED notOws

\* the response of an upstream request arrives: the result is cached, or the request
\* has failed (the stale entry is returned, or the call rejects)
Response(endpoint, ok) ==
  /\ ows.pending[endpoint] > 0
  /\ ows' = [ows EXCEPT !.pending[endpoint] = @ - 1,
                        !.cache[endpoint] = IF ok THEN ows.time ELSE @]
  /\ UNCHANGED notOws

\* Date.now() advances
WeatherClock ==
  /\ ows.time < MaxClockSteps * ClockStepMs
  /\ ows' = [ows EXCEPT !.time = @ + ClockStepMs]
  /\ UNCHANGED notOws

NextWeather ==
  \/ \E endpoint \in {"current", "forecast"} : GetWeather(endpoint)
  \/ GetTimelineData
  \/ \E endpoint \in {"current", "forecast"}, ok \in BOOLEAN : Response(endpoint, ok)
  \/ WeatherClock

SpecWeather == InitUTC /\ [][NextWeather]_vars

----------------------------------------------------------------------------
(* The server's services: validateLocation of MockDataService (src/unnamed/part_012)    *)
(* and of OpenWeatherService (src/unnamed/part_013), MockDataService.getTimelineData.   *)
(* A JavaScript value is [type, nan, n]: type is what typeof gives, and nan, n are what *)
(* ToNumber makes of it (n in thousandths), which is what >= and <= compare when the    *)
(* other operand is a number.                                                           *)

Number(n) == [type |-> "number", nan |-> FALSE, n |-> n]
NaN == [type |-> "number", nan |-> TRUE, n |-> 0]
\* a string that reads as the number n, and one that reads as no number ('invalid')
NumericString(n) == [type |-> "string", nan |-> FALSE, n |-> n]
OtherString == [type |-> "string", nan |-> TRUE, n |-> 0]
\* null (typeof null is 'object', ToNumber(null) is 0) and undefined
JsNull == [type |-> "object", nan |-> FALSE, n |-> 0]
Undefined == [type |-> "undefined", nan |-> TRUE, n |-> 0]

\* value >= bound and value <= bound for a number bound: false for NaN
Geq(value, bound) == ~value.nan /\ value.n >= bound
Leq(value, bound) == ~value.nan /\ value.n <= bound

\* MockDataService.validateLocation
MockValidateLocation(lat, lon) ==
  /\ lat.type = "number"
  /\ lon.type = "number"
  /\ Geq(lat, -90000) /\ Leq(lat, 90000)
  /\ Geq(lon, -180000) /\ Leq(lon, 180000)

\* OpenWeatherService.validateLocation (GroundDataService.validateLocation returns it)
OwsValidateLocation(lat, lon) ==
  /\ Geq(lat, -90000) /\ Leq(lat, 90000)
  /\ Geq(lon, -180000) /\ Leq(lon, 180000)

\* the values validateLocation is called with
Latitudes ==
  {Number(n) : n \in {-90001, -90000, 0, 40713, 90000, 90001}}
    \cup {NaN, NumericString(45000), OtherString, JsNull, Undefined}
Longitudes ==
  {Number(n) : n \in {-180001, -180000, 0, -74006, 180000, 180001}}
    \cup {NaN, NumericString(90000), OtherString, JsNull, Undefined}

\* what no method of the server's services touches
notProbe == <<now, tz, cacheVars, written, dmVars, interp, timelineVars, bus, ows, gls>>

\* validateLocation(lat, lon), asked of both services
ValidateLocation(lat, lon) ==
  /\ probe' = [fn |-> "validateLocation", lat |-> lat, lon |-> lon,
               result |-> [mock |-> MockValidateLocation(lat, lon),
                           ows |-> OwsValidateLocation(lat, lon)]]
  /\ UNCHANGED notProbe

\* the largest span getTimelineData is called with
MaxHours == 6
\* this.baseDate of the mock service: the time it was constructed at
BaseDates == {Anchor, Anchor + 13 * MsPerMinute}

\* generateDataPoint(hoursOffset): the timestamp of the point (the metrics are random)
generateDataPoint(baseDate, hoursOffset) ==
  [timestamp |-> baseDate + hoursOffset * MsPerHour]

\* the loop of getTimelineData from hour to endHour
RECURSIVE DataPoints(_, _, _)
DataPoints(baseDate, hour, endHour) ==
  IF hour > endHour THEN <<>>
  ELSE <<generateDataPoint(baseDate, hour)>> \o DataPoints(baseDate, hour + 1, endHour)

\* MockDataService.getTimelineData(hours): startHour = Math.floor(-hours / 2),
\* endHour = Math.ceil(hours / 2)
getTimelineData(baseDate, hours) ==
  LET startHour == (0 - hours) \div 2
      endHour == 0 - ((0 - hours) \div 2)
  IN  DataPoints(baseDate, startHour, endHour)

MockGetTimelineData(baseDate, hours) ==
  /\ probe' = [fn |-> "getTimelineData", baseDate |-> baseDate, hours |-> hours,
               result |-> getTimelineData(baseDate, hours)]
  /\ UNCHANGED notProbe

NextServer ==
  \/ \E lat \in Latitudes, lon \in Longitudes : ValidateLocation(lat, lon)
  \/ \E baseDate \in BaseDates, hours \in 1..MaxHours : MockGetTimelineData(baseDate, hours)

SpecServer == InitUTC /\ [][NextServer]_vars

----------------------------------------------------------------------------
(* GroundLayerState's timeline data (src/src/public/services/GroundLayerState.js).      *)
(* null and undefined are modelled by <<>>, an object o by <<o>>. The events the state  *)
(* emits on the event bus have no listener in this part of the model.                   *)

\* the number of setCurrentTime calls made, and the length of the arrays
\* updateTimelineData is called with
MaxUpdates == 2
MaxArray == 2

\* let closestDistance = Infinity
Infinity == -1
\* the _progress of a result that has none
NoProgress == -1

\* Map.has, Map.get, Map.set on timelineData: a key that is set again keeps its place
DataHas(map, key) == \E i \in 1..Len(map) : map[i].key = key
DataGet(map, key) == map[CHOOSE i \in 1..Len(map) : map[i].key = key].data
DataSet(map, key, data) ==
  IF DataHas(map, key)
    THEN [i \in 1..Len(map) |->
            IF map[i].key = key THEN [key |-> key, data |-> data] ELSE map[i]]
    ELSE Append(map, [key |-> key, data |-> data])

\* updateTimelineData's dataArray.forEach, from the element at index on: an element
\* without a (truthy) timestamp is left out
RECURSIVE StoreAll(_, _, _)
StoreAll(map, dataArray, index) ==
  IF index > Len(dataArray) THEN map
  ELSE LET data == dataArray[index]
       IN  IF data.timestamp # 0
             THEN StoreAll(DataSet(map, getTimelineKey(data.timestamp),
                                  [timestamp |-> data.timestamp, metrics |-> data.metrics,
                                   _cached |-> TRUE, _cacheTime |-> now]),
                           dataArray, index + 1)
             ELSE StoreAll(map, dataArray, index + 1)

Abs(x) == IF x < 0 THEN 0 - x ELSE x

\* distance < closestDistance
IsCloser(distance, closestDistance) ==
  closestDistance = Infinity \/ distance < closestDistance

\* (a bug: the first earlier entry is kept)
NewBefore_First(dataTime, targetTime, before) ==
  dataTime < targetTime /\ before = <<>>

\* dataTime < targetTime && (!before || dataTime > new Date(before.timestamp).getTime())
NewBefore(dataTime, targetTime, before) ==
  dataTime < targetTime /\ (before = <<>> \/ dataTime > before[1].timestamp)

\* dataTime > targetTime && (!after || dataTime < new Date(after.timestamp).getTime())
NewAfter(dataTime, targetTime, after) ==
  dataTime > targetTime /\ (after = <<>> \/ dataTime < after[1].timestamp)

\* before, after, closest and closestDistance before the loop
NoPoints ==
  [before |-> <<>>, after |-> <<>>, closest |-> <<>>, closestDistance |-> Infinity]

\* getSurroundingDataPoints's loop over this.timelineData.entries(), from the entry at
\* index on
RECURSIVE Surrounding(_, _, _, _)
Surrounding(map, index, targetTime, found) ==
  IF index > Len(map) THEN found
  ELSE LET data == map[index].data
           dataTime == data.timestamp
           distance == Abs(dataTime - targetTime)
           closer == IF IsCloser(distance, found.closestDistance)
                       THEN [found EXCEPT !.closestDistance = distance,
                                          !.closest = <<data>>]
                       ELSE found
           next == IF NewBefore(dataTime, targetTime, found.before)
                     THEN [closer EXCEPT !.before = <<data>>]
                   ELSE IF NewAfter(dataTime, targetTime, found.after)
                     THEN [closer EXCEPT !.after = <<data>>]
                   ELSE closer
       IN  Surrounding(map, index + 1, targetTime, next)

\* getSurroundingDataPoints(timestamp) on the timeline data map
getSurroundingDataPoints(map, timestamp) ==
  LET targetKey == getTimelineKey(timestamp)
  IN  IF DataHas(map, targetKey)
        THEN [exact |-> <<DataGet(map, targetKey)>>, before |-> <<>>, after |-> <<>>,
              closest |-> <<>>]
        ELSE LET found == Surrounding(map, 1, timestamp, NoPoints)
             IN  [exact |-> <<>>, before |-> found.before, after |-> found.after,
                  closest |-> found.closest]

\* (a bug: no result is interpolated)
CanInterpolate_Never(surrounding) == FALSE

\* surrounding.before && surrounding.after
CanInterpolate(surrounding) == surrounding.before # <<>> /\ surrounding.after # <<>>

\* the object getCurrentData returns: the data with its markers (_fallback and _progress
\* are left out of some of the objects: FALSE and NoProgress then)
Result(data, interpolated, fallback, progress) ==
  <<[data |-> data, _interpolated |-> interpolated, _fallback |-> fallback,
     _progress |-> progress]>>

\* getCurrentData() on the timeline data map, at currentTime (the progress is a whole
\* number of quarters for the times of the model)
getCurrentData(map, currentTime) ==
  LET currentKey == getTimelineKey(currentTime)
      surrounding == getSurroundingDataPoints(map, currentTime)
  IN  IF DataHas(map, currentKey)
        THEN Result(DataGet(map, currentKey), FALSE, FALSE, NoProgress)
      ELSE IF surrounding.exact # <<>>
        THEN Result(surrounding.exact[1], FALSE, FALSE, NoProgress)
      ELSE IF CanInterpolate(surrounding)
        THEN LET beforeTime == surrounding.before[1].timestamp
                 afterTime == surrounding.after[1].timestamp
                 progress == ((currentTime - beforeTime) * ProgressDen)
                               \div (afterTime - beforeTime)
                 interpolated == interpolate(surrounding.before[1], surrounding.after[1],
                                             progress)
             IN  Result([interpolated EXCEPT !.timestamp = currentTime], TRUE, FALSE,
                        progress)
      ELSE IF surrounding.closest # <<>>
        THEN Result([surrounding.closest[1] EXCEPT !.timestamp = currentTime], FALSE, TRUE,
                    NoProgress)
      ELSE <<>>

\* the hour of the anchor and the hours after it
HourAt(n) == SetMinutesZero(Anchor, 0) + n * MsPerHour

\* the times of the data of the model: none (a data object without a timestamp), three
\* hours in a row and the middle of the second of them
DataTimes == {0, HourAt(1), HourAt(2), HourAt(2) + 30 * MsPerMinute, HourAt(3)}
\* the data object of a time
DataAt(timestamp) ==
  LET halfHours == (timestamp - HourAt(0)) \div (30 * MsPerMinute)
  IN  Sample(timestamp, (10 + halfHours) * Unit, (9 + halfHours) * Unit,
             (40 + 2 * halfHours) * Unit, (1013 - halfHours) * Unit)
\* the arrays updateTimelineData is called with
RECURSIVE ArraysOf(_)
ArraysOf(n) ==
  IF n = 0 THEN {<<>>}
  ELSE {Append(a, DataAt(t)) : a \in ArraysOf(n - 1), t \in DataTimes}
DataArrays == UNION {ArraysOf(n) : n \in 1..MaxArray}
\* the times the current time is set to and the surrounding data points are asked for
CurrentTimes == {HourAt(1), HourAt(2), HourAt(2) + 30 * MsPerMinute, HourAt(3)}

notGls == <<now, tz, cacheVars, written, dmVars, interp, timelineVars, bus, ows, probe>>

\* updateTimelineData(dataArray, centerTimestamp)
UpdateTimelineData(dataArray) ==
  LET map == StoreAll(gls.timelineData, dataArray, 1)
  IN  /\ gls' = [gls EXCEPT !.timelineData = map,
                            !.current = <<getCurrentData(map, gls.currentTimestamp)>>,
                            !.query = <<>>]
      /\ UNCHANGED notGls

\* setCurrentTime(timestamp): the subscribers are notified as by notifySubscribers
SetCurrentTime(timestamp) ==
  LET run == ForEach(bus.subscribers, 1, <<>>)
  IN  /\ gls.updateCount < MaxUpdates
      /\ gls' = [gls EXCEPT !.currentTimestamp = timestamp,
                            !.lastUpdateTime = now,
                            !.updateCount = @ + 1,
                            !.current = <<getCurrentData(gls.timelineData, timestamp)>>]
      /\ bus' = [bus EXCEPT !.subscribers = run.entries,
                            !.dispatched = [by |-> "notifySubscribers",
                                            atStart |-> Range(bus.subscribers),
                                            received |-> run.received]]
      /\ UNCHANGED <<now, tz, cacheVars, written, dmVars, interp, timelineVars, ows, probe>>

\* getSurroundingDataPoints(timestamp), called from outside
GetSurroundingDataPoints(timestamp) ==
  /\ gls' = [gls EXCEPT !.query =
                          <<[timestamp |-> timestamp,
                             result |-> getSurroundingDataPoints(gls.timelineData,
                                                                 timestamp)]>>]
  /\ UNCHANGED notGls

NextTimelineData ==
  \/ \E dataArray \in DataArrays : UpdateTimelineData(dataArray)
  \/ \E timestamp \in CurrentTimes : SetCurrentTime(timestamp)
  \/ \E timestamp \in CurrentTimes : GetSurroundingDataPoints(timestamp)

SpecTimelineData == InitUTC /\ [][NextTimelineData]_vars

----------------------------------------------------------------------------
(* Claims about CacheManager, checked under SpecCache *)

\* the ttl a set call with this customTTL gives the entry (null and 0 mean maxAge)
TTLOf(customTTL) == IF customTTL > 0 THEN customTTL ELSE MaxAge

\* C8: after set(k, d, ttl) at time t0, with no later set, invalidate or eviction of k,
\* a get(k) made at any time now <= t0 + ttl returns d, and a get(k) made at any time
\* now > t0 + ttl returns null; a get or has after expiry leaves no entry for k.
C8_GetUntilTTL ==
  written # NoWrite =>
    LET limit == written.at + TTLOf(written.ttl)
        g == CM_get(cache, accessTimes, now, written.key)
        h == CM_has(cache, accessTimes, now, written.key)
    IN  /\ now <= limit => g.ret = written.data /\ h.ret = TRUE
        /\ now > limit  => /\ g.ret = Null
                           /\ h.ret = FALSE
                           /\ written.key \notin DOMAIN g.cache
                           /\ written.key \notin DOMAIN h.cache
                           /\ written.key \notin MapKeys(g.accessTimes)
                           /\ written.key \notin MapKeys(h.accessTimes)

\* C8 witness: a set with a custom ttl still stands, its ttl has elapsed, and the entry
\* has been deleted on expiry
C8_Witness ==
  /\ written # NoWrite
  /\ written.ttl > 0
  /\ now > written.at + written.ttl
  /\ written.key \notin DOMAIN cache

\* the last-access time accessTimes holds for a key
AccessTimeOf(a, key) == (CHOOSE i \in 1..Len(a) : a[i].key = key)

\* C10 (as claimed): when the cache holds maxSize entries and set adds a key that is not
\* present, exactly one prior entry is removed, it is one with the oldest last-access
\* time, and every other prior entry stays.
C10_EvictsExactlyLRU ==
  [][\A k \in CacheKeys :
       (k \in DOMAIN cache' /\ k \notin DOMAIN cache /\ Cardinality(DOMAIN cache) = MaxSize)
       => LET removed == (DOMAIN cache) \ (DOMAIN cache')
          IN  /\ Cardinality(removed) = 1
              /\ \A x \in removed : \A i \in 1..Len(accessTimes) :
                   accessTimes[AccessTimeOf(accessTimes, x)].time <= accessTimes[i].time
              /\ ((DOMAIN cache) \ removed) \subseteq DOMAIN cache']_vars

\* C11 (as claimed): in every reachable state of a CacheManager the number of stored
\* entries is at most maxSize.
C11_BoundedSize == Cardinality(DOMAIN cache) <= MaxSize

----------------------------------------------------------------------------
(* Claims about GroundDataManager, checked under Spec, SpecTZ and FairSpec *)

Requests == 1..Len(requests)
Calls == 1..Len(calls)
InFlight(r) == requests[r].phase \in {"fetching", "backoff"}
Settled(c) == calls[c].status # "pending"
\* the call made in the last step (when lastCall # NoCall)
NewestCall == calls[Len(calls)]
Failed(entry) == ~entry.ok

\* C1: at most one retrieval is in flight per cache key, and the ledger names it; a call
\* that is not served from the cache while a retrieval for its key is in flight is
\* attached to that retrieval and starts none; two calls that share a retrieval whose
\* first fetch succeeds are both served by that one fetchData invocation.
C1_OneRetrievalPerKey ==
  /\ \A r1, r2 \in Requests :
       (InFlight(r1) /\ InFlight(r2) /\ requests[r1].key = requests[r2].key) => r1 = r2
  /\ \A r \in Requests :
       InFlight(r) => (requests[r].key \in DOMAIN pendingRequests
                       /\ pendingRequests[requests[r].key] = r)
  /\ lastCall # NoCall =>
       \A r \in Requests :
         (InFlight(r) /\ requests[r].key = NewestCall.key /\ NewestCall.kind # "hit")
         => (NewestCall.req = r
             /\ (requests[r].caller # Len(calls) => NewestCall.kind = "attached"))
  /\ \A c1, c2 \in Calls :
       (/\ calls[c1].kind = "initiator" /\ calls[c2].kind = "attached"
        /\ calls[c1].req = calls[c2].req
        /\ requests[calls[c1].req].log = <<[ok |-> TRUE, v |-> SampleOf(calls[c1].req)]>>)
       => /\ requests[calls[c1].req].attempt = 1
          /\ Cardinality({r \in Requests : requests[r].caller \in {c1, c2}}) = 1
          /\ calls[c1].status = "resolved" /\ calls[c1].value = SampleOf(calls[c1].req)
          /\ calls[c2].status = "resolved" /\ calls[c2].value = SampleOf(calls[c1].req)

\* C1 witness: a call was attached to another call's retrieval, and the one fetch
\* served both
C1_Witness ==
  \E c1, c2 \in Calls :
    /\ calls[c1].kind = "initiator" /\ calls[c2].kind = "attached"
    /\ calls[c1].req = calls[c2].req
    /\ calls[c2].status = "resolved"
    /\ requests[calls[c1].req].attempt = 1

\* C2 (as claimed): all the callers served by one retrieval get the same outcome.
C2_SameOutcome ==
  \A c1, c2 \in Calls :
    (/\ calls[c1].req # 0 /\ calls[c1].req = calls[c2].req
     /\ Settled(c1) /\ Settled(c2))
    => (calls[c1].status = calls[c2].status /\ calls[c1].value = calls[c2].value)

\* C3: a retrieval whose first two fetch attempts failed makes a third attempt, and when
\* that one succeeds the retrieval has invoked the fetch collaborator exactly 3 times and
\* its caller is resolved with the value of the third attempt.
C3_RetryThenSucceed ==
  \A r \in Requests :
    LET log == requests[r].log
    IN  /\ (Len(log) = 2 /\ Failed(log[1]) /\ Failed(log[2]))
             => (InFlight(r) /\ ~Settled(requests[r].caller))
        /\ (Len(log) >= 3 /\ Failed(log[1]) /\ Failed(log[2]) /\ log[3].ok)
             => /\ Len(log) = 3
                /\ requests[r].attempt = 3
                /\ requests[r].phase = "resolved"
                /\ calls[requests[r].caller].status = "resolved"
                /\ calls[requests[r].caller].value = log[3].v

\* C3 witness: a retrieval failed twice and succeeded on its third attempt
C3_Witness ==
  \E r \in Requests :
    /\ Len(requests[r].log) = 3
    /\ requests[r].log[3].ok
    /\ calls[requests[r].caller].status = "resolved"

\* the step in which retrieval r exhausts its retries
Exhausts(r) == requests[r].phase = "fetching" /\ requests'[r].phase = "rejected"

\* C4: a retrieval invokes the fetch collaborator at most retryAttempts (3) times; when
\* its last attempt fails and the cache has no entry for the key, the caller is rejected
\* with the error of that last attempt, after 3 failed attempts, and the cache is left
\* as it was.
C4_RejectAfterThree ==
  [][/\ \A r \in 1..Len(requests') : requests'[r].attempt <= retryAttempts
     /\ \A r \in Requests :
          (Exhausts(r) /\ requests[r].key \notin DOMAIN cache)
          => /\ Len(requests'[r].log) = retryAttempts
             /\ \A i \in 1..retryAttempts : Failed(requests'[r].log[i])
             /\ calls'[requests[r].caller].status = "rejected"
             /\ calls'[requests[r].caller].value = requests'[r].log[retryAttempts].v
             /\ calls'[requests[r].caller].value = ErrorOf(retryAttempts)
             /\ cache' = cache
             /\ accessTimes' = accessTimes]_vars

\* C4 witness: a caller was rejected, with nothing cached for its key
C4_Witness ==
  \E c \in Calls :
    /\ calls[c].kind = "initiator"
    /\ calls[c].status = "rejected"
    /\ calls[c].key \notin DOMAIN cache

IsCall == Len(calls') = Len(calls) + 1

\* C6: a call without forceRefresh for a key whose entry is in the cache and within its
\* TTL is resolved at once with the stored sample, and causes no fetch: no retrieval is
\* started and none makes another attempt.
C6_SecondCallFromCache ==
  [][(IsCall /\ ~lastCall'.forceRefresh)
       => LET c == calls'[Len(calls')]
          IN  (c.key \in DOMAIN cache /\ now <= cache[c.key].expires)
              => /\ c.kind = "hit"
                 /\ c.status = "resolved"
                 /\ c.value = cache[c.key].data
                 /\ requests' = requests
                 /\ pendingRequests' = pendingRequests]_vars

\* C6 witness: a call was resolved by a successful fetch and a later call was served
\* its sample from the cache
C6_Witness ==
  \E c1, c2 \in Calls :
    /\ c1 < c2
    /\ calls[c1].kind = "initiator" /\ calls[c1].status = "resolved"
    /\ requests[calls[c1].req].phase = "resolved"
    /\ calls[c2].kind = "hit"
    /\ calls[c2].value = calls[c1].value

\* C7: when every fetch attempt eventually settles and every backoff timer eventually
\* fires, every getDataForTime call made, initiating or attached, is eventually resolved
\* or rejected, and the retrieval that serves it never makes more than retryAttempts (3)
\* fetch attempts.
C7_EveryCallSettles ==
  /\ \A c \in 1..MaxCalls : [](c <= Len(calls) => <>(c <= Len(calls) /\ Settled(c)))
  /\ [](\A r \in Requests : requests[r].attempt <= retryAttempts)

\* C7 witness: a call that waited for three fetch attempts has been settled
C7_Witness ==
  \E c \in Calls :
    /\ calls[c].kind # "hit"
    /\ Settled(c)
    /\ requests[calls[c].req].attempt = retryAttempts

\* the clock hour (local time) a timestamp lies in
ClockHour(timestamp) == (timestamp + tz) \div MsPerHour
\* the timestamps a call's timestamp is compared with
KeyTimestamps ==
  DMTimestamps \cup {MsPerHour - 1, MsPerHour, 90 * MsPerMinute - 1, 90 * MsPerMinute,
                     2 * MsPerHour - 1, 2 * MsPerHour}

----------------------------------------------------------------------------
(* Claims about ValueInterpolator, checked under SpecInterp *)

Returned == interp.result # <<>>
Between(x, a, b) == Min(a, b) <= x /\ x <= Max(a, b)

\* C12: interpolate(before, after, 0) returns before, interpolate(before, after, 1)
\* returns after, and a progress below 0 or above 1 gives what 0 and 1 give.
C12_Boundaries ==
  Returned =>
    /\ interp.progress <= 0 => interp.result[1] = interp.startData
    /\ interp.progress >= ProgressDen => interp.result[1] = interp.endData

\* C12 witness: interpolate returned for a progress below 0 and differing samples
C12_Witness ==
  /\ Returned
  /\ interp.progress < 0
  /\ interp.startData.metrics # interp.endData.metrics
  /\ interp.result[1] = interp.startData

----------------------------------------------------------------------------
(* Claims about Timeline, checked under SpecTimeline *)

RECURSIVE SumDeltas(_)
SumDeltas(events) ==
  IF events = <<>> THEN 0 ELSE Head(events).deltaX + SumDeltas(Tail(events))

\* the events handled so far are a press followed by move events only
OnlyDragSoFar(n) ==
  /\ n >= 1
  /\ inputs[1].kind = "down"
  /\ \A i \in 2..n : inputs[i].kind = "move"
\* the timestamp the timeline shows
Shown == getCurrentTimestamp(scrollPosition, hourWidth, currentTimestamp)
\* the notifications made after the n-th input event was handled
MadeAfter(n) == {i \in 1..Len(notifications) : notifications[i].after = n}

\* C14: from the centered timeline, a drag whose move events sum to N hour widths, then
\* the release and the end of the snap animation, with no other input, leave
\* scrollPosition at the multiple (centerHour + N) of hourWidth and the shown timestamp
\* exactly N hours from the anchor.
C14_DragByHours ==
  LET n == Len(inputs)
      total == SumDeltas(inputs)
  IN  (/\ n >= 2 /\ OnlyDragSoFar(n - 1) /\ inputs[n].kind = "up"
       /\ animations = <<>>
       /\ total % hourWidth = 0)
      => /\ scrollPosition % hourWidth = 0
         /\ scrollPosition = (centerHour + total \div hourWidth) * hourWidth
         /\ Shown = Anchor + (total \div hourWidth) * MsPerHour
         /\ notifications[Len(notifications)].timestamp = Shown

\* C14 witness: a drag of two half hour widths was released and the snap animation has
\* ended, one hour from the anchor
C14_Witness ==
  /\ Len(inputs) = 4
  /\ OnlyDragSoFar(3)
  /\ inputs[2].deltaX = hourWidth \div 2
  /\ inputs[3].deltaX = hourWidth \div 2
  /\ inputs[4].kind = "up"
  /\ animations = <<>>
  /\ Shown = Anchor + MsPerHour

\* C15 (as claimed): after a drag release no time-change notification is made until the
\* snap animation ends, and when it has ended exactly one has been made since the
\* release, an immediate one that carries the snapped timestamp.
C15_OneNotificationPerRelease ==
  LET n == Len(inputs)
  IN  (n >= 1 /\ inputs[n].kind = "up")
      => IF animations # <<>>
           THEN MadeAfter(n) = {}
           ELSE /\ Cardinality(MadeAfter(n)) = 1
                /\ \A i \in MadeAfter(n) :
                     /\ notifications[i].immediate
                     /\ notifications[i].timestamp = Shown

\* C16 (as claimed): during a drag, move events that each arrive within 50ms of the one
\* before produce no time-change notification while they last, and exactly one when the
\* debounce delay has passed after the last of them: a debounced one that carries the
\* timestamp of the last move.
C16_MovesCoalesced ==
  (isDragging /\ OnlyDragSoFar(Len(inputs)) /\ burst.moves >= 1 /\ burst.rapid)
  => LET made == Len(notifications) - burst.base
     IN  /\ made <= 1
         /\ clock < burst.lastAt + DebounceTicks => made = 0
         /\ clock > burst.lastAt + DebounceTicks
              => /\ made = 1
                 /\ ~notifications[Len(notifications)].immediate
                 /\ notifications[Len(notifications)].timestamp = Shown

\* the kinds of the input events handled so far
InputKinds == {inputs[i].kind : i \in 1..Len(inputs)}

C23_RoundTrip ==
  \A i \in 1..Len(animations) :
    LET a == animations[i]
        end == EasedPosition(a.startPosition, a.distance, DurationTicks)
    IN  (/\ a.jump # NoJump
         /\ a.jump.timestamp
              = getCurrentTimestamp(a.startPosition, a.jump.hourWidth, currentTimestamp))
        => /\ end - a.startPosition <= PosScale
           /\ a.startPosition - end <= PosScale

----------------------------------------------------------------------------
(* Claims about EventBus and GroundLayerState's subscribers, checked under SpecDispatch *)

\* the callbacks that unsubscribed a registered callback during the last dispatch
Unsubscribers ==
  {cb \in Range(bus.dispatched.received) : TargetOf(cb) \in bus.dispatched.atStart}

\* C22 (as claimed): when callbacks unsubscribed during a dispatch (emit or
\* notifySubscribers), every callback that was registered when the dispatch started,
\* other than those that did the unsubscribing, was called
C22_NoneSkipped ==
  Unsubscribers # {}
    => \A cb \in bus.dispatched.atStart \ Unsubscribers :
         cb \in Range(bus.dispatched.received)

----------------------------------------------------------------------------
(* Claims about OpenWeatherService, checked under SpecWeather *)

----------------------------------------------------------------------------
(* Claims about the server's services, checked under SpecServer *)

\* lat is a number in [-90, 90] and lon is a number in [-180, 180]
InRange(lat, lon) ==
  /\ lat.type = "number" /\ ~lat.nan /\ lat.n >= -90000 /\ lat.n <= 90000
  /\ lon.type = "number" /\ ~lon.nan /\ lon.n >= -180000 /\ lon.n <= 180000

\* C25 (as claimed): both validators return true exactly for a number lat in [-90, 90]
\* and a number lon in [-180, 180], and so agree on every input
C25_ValidatorsAgree ==
  probe.fn = "validateLocation"
    => /\ probe.result.mock = InRange(probe.lat, probe.lon)
       /\ probe.result.ows = InRange(probe.lat, probe.lon)

\* C26 (as claimed): getTimelineData(hours) returns hours + 1 points, each one hour
\* after the one before
C26_HoursPlusOne ==
  probe.fn = "getTimelineData"
    => /\ Len(probe.result) = probe.hours + 1
       /\ \A i \in 2..Len(probe.result) :
            probe.result[i].timestamp = probe.result[i - 1].timestamp + MsPerHour

----------------------------------------------------------------------------
(* Claims about GroundDataManager's validation *)

\* C17: a fetched sample that fails GroundData.isValid is never stored in the cache and
\* never returned to a caller as a successful result
C17_InvalidNeverServed ==
  /\ \A k \in DOMAIN cache : isValid(cache[k].data)
  /\ \A c \in Calls : calls[c].status = "resolved" => isValid(calls[c].value)

\* C18: no retrieval is ever started for coordinates out of range, so that none is
\* fetched nor retried
C18_OutOfRangeRejected ==
  \A r \in Requests : validateLocation(requests[r].lat, requests[r].lon)

----------------------------------------------------------------------------
(* Claims about GroundDataManager.preloadAdjacentData *)

Preloads == 1..Len(preloads)
\* the retrievals of the preload i that are in flight
PreloadInFlight(i) ==
  {j \in 1..Len(preloads[i].promises) : InFlight(calls[preloads[i].promises[j]].req)}

\* C19: at most maxConcurrentRequests retrievals of a preload are in flight at any time
C19_BoundedInFlight ==
  \A i \in Preloads : Cardinality(PreloadInFlight(i)) <= maxConcurrentRequests

\* the promise of the preload i has resolved and every call it made has settled
PreloadDone(i) ==
  /\ i \in Preloads
  /\ preloads[i].phase = "resolved"
  /\ \A j \in 1..Len(preloads[i].promises) :
       calls[preloads[i].promises[j]].status # "pending"

\* C20: the promise of preloadAdjacentData never rejects, and it resolves, with every
\* retrieval of the preload run to its end, whichever of them fail
C20_PreloadNeverRejects ==
  /\ [](\A i \in Preloads : preloads[i].phase # "rejected")
  /\ \A i \in 1..MaxPreloads : (i \in Preloads) ~> PreloadDone(i)

\* a preload has resolved, one retrieval of it having failed after its retries and
\* another having succeeded
C20_Witness ==
  \E i \in Preloads :
    /\ PreloadDone(i)
    /\ \E j, k \in 1..Len(preloads[i].promises) :
         /\ calls[preloads[i].promises[j]].status = "rejected"
         /\ Len(requests[calls[preloads[i].promises[j]].req].log) = retryAttempts
         /\ calls[preloads[i].promises[k]].status = "resolved"

\* the key of the hour at the offset from the center of a preload
KeyAt(centerTimestamp, offset) ==
  generateCacheKey(centerTimestamp + offset * MsPerHour,
                   DefaultLocation.lat, DefaultLocation.lon)

\* the retrievals started in this step
Started == (Len(requests) + 1)..Len(requests')

\* C27: a preloadAdjacentData(center, r) call starts at most 2r retrievals, each for an
\* hour at an offset in [-r, r] other than 0, never for the center's key, and only for a
\* key that was neither live in the cache nor in the pending ledger nor being retrieved
\* when the call was made; no two of them are for the same key
C27_PreloadOnlyMissing ==
  [][Len(preloads') > Len(preloads) =>
       LET p == preloads'[Len(preloads')]
           offsets == ((0 - p.hoursRadius)..p.hoursRadius) \ {0}
       IN  /\ Cardinality(Started) <= 2 * p.hoursRadius
           /\ \A r \in Started :
                LET key == requests'[r].key
                IN  /\ \E o \in offsets : key = KeyAt(p.centerTimestamp, o)
                    /\ key # KeyAt(p.centerTimestamp, 0)
                    /\ ~CM_has(cache, accessTimes, now, key).ret
                    /\ key \notin DOMAIN pendingRequests
                    /\ \A q \in Requests : InFlight(q) => requests[q].key # key
                    /\ \A q \in Started \ {r} : requests'[q].key # key
  ]_vars

\* C27 witness: a preload of radius 1 has started one retrieval only, for the hour after
\* the center, the hour before it being retrieved or live in the cache
C27_Witness ==
  \E i \in Preloads :
    /\ preloads[i].hoursRadius = 1
    /\ Len(preloads[i].promises) = 1
    /\ calls[preloads[i].promises[1]].key = KeyAt(preloads[i].centerTimestamp, 1)
    /\ \E c \in Calls : /\ c < preloads[i].promises[1]
                        /\ calls[c].key = KeyAt(preloads[i].centerTimestamp, -1)

----------------------------------------------------------------------------
(* Claims about GroundLayerState's timeline data, checked under SpecTimelineData *)

\* the data objects stored in the timeline data, and those before and after a time
Stored == {gls.timelineData[i].data : i \in 1..Len(gls.timelineData)}
Earlier(timestamp) == {d \in Stored : d.timestamp < timestamp}
Later(timestamp) == {d \in Stored : d.timestamp > timestamp}
\* the place of the entry of a time in the timeline data (0 if there is none)
PlaceOf(timestamp) ==
  IF \E i \in 1..Len(gls.timelineData) : gls.timelineData[i].data.timestamp = timestamp
    THEN CHOOSE i \in 1..Len(gls.timelineData) :
           gls.timelineData[i].data.timestamp = timestamp
    ELSE 0

\* C28: getSurroundingDataPoints returns exact only when an entry is stored under the
\* target's hour key; when none is, before is the stored entry with the greatest timestamp
\* strictly less than the target (null if there is none) and after the stored entry with
\* the smallest timestamp strictly greater (null if there is none), in whatever order the
\* entries were inserted
C28_BeforeAfter ==
  gls.query # <<>> =>
    LET target == gls.query[1].timestamp
        result == gls.query[1].result
    IN  /\ result.exact # <<>> => DataHas(gls.timelineData, getTimelineKey(target))
        /\ ~DataHas(gls.timelineData, getTimelineKey(target)) =>
             /\ result.exact = <<>>
             /\ IF Earlier(target) = {} THEN result.before = <<>>
                ELSE /\ result.before # <<>>
                     /\ result.before[1] \in Earlier(target)
                     /\ \A d \in Earlier(target) : d.timestamp <= result.before[1].timestamp
             /\ IF Later(target) = {} THEN result.after = <<>>
                ELSE /\ result.after # <<>>
                     /\ result.after[1] \in Later(target)
                     /\ \A d \in Later(target) : d.timestamp >= result.after[1].timestamp

\* C28 witness: the surrounding points of the third hour were asked for, no entry being
\* under its key and the entry of the second hour having been inserted before the entry of
\* the first: before is the entry of the second hour, after is null
C28_Witness ==
  /\ gls.query # <<>>
  /\ gls.query[1].timestamp = HourAt(3)
  /\ ~DataHas(gls.timelineData, getTimelineKey(HourAt(3)))
  /\ PlaceOf(HourAt(1)) > PlaceOf(HourAt(2))
  /\ PlaceOf(HourAt(2)) > 0
  /\ gls.query[1].result.before # <<>>
  /\ gls.query[1].result.before[1].timestamp = HourAt(2)
  /\ gls.query[1].result.after = <<>>

\* C29: the closest entry getSurroundingDataPoints returns is a stored entry at the least
\* absolute distance from the target, and of two entries at that distance the one with the
\* earlier timestamp, in whatever order the entries were inserted
C29_ClosestTieEarlier ==
  (/\ gls.query # <<>>
   /\ ~DataHas(gls.timelineData, getTimelineKey(gls.query[1].timestamp))
   /\ Stored # {}) =>
    LET target == gls.query[1].timestamp
        closest == gls.query[1].result.closest
    IN  /\ closest # <<>>
        /\ closest[1] \in Stored
        /\ \A d \in Stored :
             /\ Abs(closest[1].timestamp - target) <= Abs(d.timestamp - target)
             /\ Abs(closest[1].timestamp - target) = Abs(d.timestamp - target)
                  => closest[1].timestamp <= d.timestamp

\* C30: getCurrentData marks its result _interpolated exactly when no entry is under the
\* current hour key and both an earlier and a later entry are stored; a result taken from
\* the entry under the key or from the closest entry is not marked; null is returned only
\* when nothing is stored
C30_InterpolatedMarker ==
  gls.current # <<>> =>
    LET result == gls.current[1]
        exact == DataHas(gls.timelineData, getTimelineKey(gls.currentTimestamp))
        between == /\ ~exact
                   /\ Earlier(gls.currentTimestamp) # {}
                   /\ Later(gls.currentTimestamp) # {}
    IN  /\ result = <<>> => Stored = {}
        /\ result # <<>> =>
             /\ result[1]._interpolated <=> between
             /\ exact => /\ ~result[1]._interpolated
                         /\ result[1].data = DataGet(gls.timelineData,
                                                     getTimelineKey(gls.currentTimestamp))
             /\ result[1]._fallback => ~result[1]._interpolated

\* C30 witness: the current time is the middle of the second hour, the entries of the
\* first and third hours are stored and none of the second: the result is marked, three
\* quarters of the way from the first to the third
C30_Witness ==
  /\ gls.current # <<>>
  /\ gls.current[1] # <<>>
  /\ gls.currentTimestamp = HourAt(2) + 30 * MsPerMinute
  /\ PlaceOf(HourAt(1)) > 0
  /\ PlaceOf(HourAt(3)) > 0
  /\ ~DataHas(gls.timelineData, getTimelineKey(gls.currentTimestamp))
  /\ gls.current[1][1]._interpolated
  /\ gls.current[1][1]._progress = 3
  /\ gls.current[1][1].data.metrics.temperature.current =
       lerp(DataAt(HourAt(1)).metrics.temperature.current,
            DataAt(HourAt(3)).metrics.temperature.current, 3)

----------------------------------------------------------------------------
(* Claims about Timeline's input handling *)

\* C31: the timeline is not dragged while a snap animation runs: once a pointer goes down,
\* no animation is left running, only the move events of the drag change scrollPosition
\* and no immediate (completion) notification is made before the pointer is released
C31_DragCancelsSnap ==
  [][(isDragging /\ isDragging') =>
       /\ animations' = <<>>
       /\ scrollPosition' # scrollPosition =>
            /\ Len(inputs') = Len(inputs) + 1
            /\ inputs'[Len(inputs')].kind = "move"
       /\ Len(notifications') > Len(notifications) =>
            ~notifications'[Len(notifications')].immediate
  ]_vars

\* the inputs handled so far are all of the kinds given
OnlyInputs(handled, kinds) == \A i \in 1..Len(handled) : handled[i].kind \in kinds
\* an input is handled, a notification is made, an animation loop starts or ends in this step
InputHandled == Len(inputs') = Len(inputs) + 1
Notified == Len(notifications') > Len(notifications)
AnimationStarts == Len(animations') > Len(animations)
AnimationEnds == Len(animations') < Len(animations)

\* C32: with the wheel alone, a wheel event applies its (doubled) delta to scrollPosition,
\* leaves isDragging false and notifies nobody; the snap to the nearest hour starts 150ms
\* after the last wheel event; a notification is made only when a snap completes, exactly
\* one each time, immediate and for a whole hour
C32_WheelSnapsWhenQuiet ==
  [][OnlyInputs(inputs', {"wheel"}) =>
       /\ InputHandled =>
            /\ scrollPosition' = scrollPosition - 2 * inputs'[Len(inputs')].deltaX
            /\ ~isDragging /\ ~isDragging'
            /\ ~Notified
            /\ wheelTimeout' = clock + wheelDelay \div TickMs
       /\ AnimationStarts =>
            /\ wheelTimeout = clock
            /\ animations'[Len(animations')].startPosition = scrollPosition
            /\ scrollPosition + animations'[Len(animations')].distance
                 = RoundHours(scrollPosition, hourWidth) * hourWidth
       /\ AnimationEnds => Len(notifications') = Len(notifications) + 1
       /\ Notified =>
            /\ AnimationEnds
            /\ notifications'[Len(notifications')].immediate
            /\ notifications'[Len(notifications')].timestamp = Shown'
            /\ scrollPosition' % hourWidth = 0
  ]_vars

\* C32 witness: after a burst of two wheel events of an eighth of an hour each (a quarter
\* of an hour each when doubled) the timeline has snapped to the next hour and has
\* notified once
C32_Witness ==
  /\ Len(inputs) = 2
  /\ OnlyInputs(inputs, {"wheel"})
  /\ animations = <<>>
  /\ wheelTimeout = NoTimer
  /\ scrollPosition = (centerHour + 1) * hourWidth
  /\ Len(notifications) = 1
  /\ notifications[1].immediate
  /\ notifications[1].timestamp = Anchor + MsPerHour

\* the sum of the increments of the key presses, in quarters of an hour
RECURSIVE SumQuarters(_, _)
SumQuarters(handled, n) ==
  IF n = 0 THEN 0 ELSE SumQuarters(handled, n - 1) + QuartersToMove(handled[n].kind)

\* C33: when only arrow and page keys were pressed and every animation has completed, the
\* timestamp shown is the anchor plus the increments of all presses (15 minutes for an
\* arrow key, one hour for a page key)
C33_KeysAddUp ==
  (OnlyInputs(inputs, MoveKeys) /\ animations = <<>>) =>
    Shown = Anchor + SumQuarters(inputs, Len(inputs)) * 15 * MsPerMinute

\* C34: a press of Home puts scrollPosition at the initial center, where the timestamp
\* shown is the anchor, and makes an immediate notification of it in the same step
C34_HomeNotifiesAtOnce ==
  [][(InputHandled /\ inputs'[Len(inputs')].kind = "Home") =>
       /\ scrollPosition' = centerHour * hourWidth
       /\ Shown' = Anchor
       /\ Notified
       /\ notifications'[Len(notifications')].immediate
       /\ notifications'[Len(notifications')].timestamp = Anchor
  ]_vars

\* C35: at most one timer of emitTimeChange is pending, the one debounceTimeout names: a
\* timer that was superseded never fires, and the notification of a timer that fires
\* carries the timestamp shown when it fires
C35_OneDebounceTimer ==
  [][/\ Len(timers) <= 1
     /\ Len(timers') <= 1
     /\ timers' # <<>> => timers' = <<debounceTimeout'>>
     /\ (Notified /\ ~notifications'[Len(notifications')].immediate) =>
          /\ timers = <<debounceTimeout>>
          /\ debounceTimeout = clock
          /\ timers' = <<>>
          /\ notifications'[Len(notifications')].timestamp = Shown
  ]_vars

\* C35 witness: the window was resized at two different times, the timer of the first
\* resize was superseded, and one debounced notification was made, after the second
C35_Witness ==
  /\ Len(inputs) = 2
  /\ OnlyInputs(inputs, {"resize"})
  /\ clock > debounceDelay \div TickMs
  /\ Len(notifications) = 1
  /\ ~notifications[1].immediate
  /\ notifications[1].after = 2
  /\ timers = <<>>

----------------------------------------------------------------------------
(* Claims about OpenWeatherService's fallback, checked under SpecWeather *)

\* a getCurrentWeather or getForecastData call is made in this step
WeatherCalled ==
  /\ ows' # ows
  /\ ows'.time = ows.time
  /\ ows'.cache = ows.cache
  /\ \A e \in {"current", "forecast"} : ows'.pending[e] >= ows.pending[e]
  /\ ows'.last.call \in {"current", "forecast"}

\* C36: a getCurrentWeather or getForecastData call made when the rate limit is reached
\* returns the cached data of its endpoint, when there is such data, and does not reject
C36_QuotaFallsBackToCache ==
  [][(/\ WeatherCalled
      /\ ~UnderLimit(ResetWindow(ows).requestCount)
      /\ ows.cache[ows'.last.call] # NoEntry)
       => ows'.last.outcome = "cached"
  ]_vars

----------------------------------------------------------------------------
(* Claims about GroundDataManager's ledger and cache, checked under Spec *)

\* the retrievals that succeed, that fail for good, that take a failed attempt in this step
Succeeds(r) == requests[r].phase = "fetching" /\ requests'[r].phase = "resolved"
AttemptFails(r) ==
  /\ Len(requests'[r].log) > Len(requests[r].log)
  /\ ~requests'[r].log[Len(requests'[r].log)].ok
\* the key of a first write of this step, the cache being full
Evicting == \E k \in (DOMAIN cache') \ (DOMAIN cache) : CacheFull(cache, k)

\* C37: a retrieval in flight has its key in the pending ledger; when it succeeds the
\* fetched sample is in the cache as the key leaves the ledger, whatever calls were made
\* for the key meanwhile; and an entry leaves the cache only expired or evicted
C37_PendingOrCached ==
  [][/\ \A r \in 1..Len(requests') :
          InFlight(r)' => requests'[r].key \in DOMAIN pendingRequests'
     /\ \A r \in Requests :
          Succeeds(r) =>
            /\ requests[r].key \in DOMAIN pendingRequests
            /\ requests[r].key \in DOMAIN cache'
            /\ cache'[requests[r].key].data = requests'[r].value
            /\ cache'[requests[r].key].timestamp = now
     /\ \A k \in (DOMAIN cache) \ (DOMAIN cache') : Expired(cache[k], now) \/ Evicting
  ]_vars

\* C37 witness: a forced call was attached to a retrieval in flight, and that retrieval
\* has succeeded and its sample is in the cache, the key being out of the ledger
C37_Witness ==
  \E r \in Requests, c \in Calls :
    /\ calls[c].kind = "attached"
    /\ calls[c].req = r
    /\ requests[r].phase = "resolved"
    /\ requests[r].key \notin DOMAIN pendingRequests
    /\ requests[r].key \in DOMAIN cache
    /\ cache[requests[r].key].data = requests[r].value

\* C38: a step in which an attempt of a retrieval fails, the last one too, adds no cache
\* entry and leaves every entry that stays in the cache as it was
C38_FailureWritesNothing ==
  [][(\E r \in Requests : AttemptFails(r)) =>
       /\ DOMAIN cache' \subseteq DOMAIN cache
       /\ \A k \in DOMAIN cache' : cache'[k] = cache[k]
  ]_vars

\* C38 witness: a retrieval has failed for good while its key was in the cache, and the
\* entry is still there (its data was the fallback)
C38_Witness ==
  \E r \in Requests :
    /\ requests[r].phase = "rejected"
    /\ Len(requests[r].log) = retryAttempts
    /\ requests[r].key \in DOMAIN cache
    /\ calls[requests[r].caller].status = "resolved"
    /\ calls[requests[r].caller].value = cache[requests[r].key].data

\* the keys of the retrievals in flight
InFlightKeys == {requests[r].key : r \in {q \in Requests : InFlight(q)}}

\* C39: the pending ledger holds exactly the keys of the retrievals in flight, each under
\* its own key (so it is empty when none is in flight), and a call that is not served
\* from the cache for a key that has no retrieval in flight starts one
C39_LedgerIsInFlight ==
  [][/\ DOMAIN pendingRequests = InFlightKeys
     /\ (DOMAIN pendingRequests)' = InFlightKeys'
     /\ \A k \in DOMAIN pendingRequests' : requests'[pendingRequests'[k]].key = k
     /\ (\A r \in 1..Len(requests') : ~InFlight(r)') => pendingRequests' = <<>>
     /\ (/\ Len(calls') > Len(calls)
         /\ calls'[Len(calls')].key \notin InFlightKeys
         /\ calls'[Len(calls')].kind # "hit")
          => /\ calls'[Len(calls')].kind = "initiator"
             /\ Len(requests') = Len(requests) + 1
  ]_vars

\* C39 witness: a retrieval failed for good, none is in flight and the ledger is empty,
\* and a later call for the same key has started the second retrieval of the key, which
\* has settled too
C39_Witness ==
  /\ pendingRequests = <<>>
  /\ \E r1, r2 \in Requests :
       /\ r1 < r2
       /\ requests[r1].key = requests[r2].key
       /\ requests[r1].phase = "rejected"
       /\ ~InFlight(r2)

----------------------------------------------------------------------------
(* Claims about CacheManager's two maps, checked under SpecCache *)

\* C40: accessTimes and cache have the same keys in every reachable state, and accessTimes
\* has each of them once
C40_SameKeys ==
  /\ MapKeys(accessTimes) = DOMAIN cache
  /\ Len(accessTimes) = Cardinality(DOMAIN cache)

\* C40 witness: the cache is full and one of its entries was read after it was written:
\* get has set its access time, which touches accessTimes alone
C40_Witness ==
  /\ Cardinality(DOMAIN cache) = MaxSize
  /\ \E i \in 1..Len(accessTimes) :
       accessTimes[i].time > cache[accessTimes[i].key].timestamp

====
